---------------------------- MODULE Spec2Model ----------------------------
(***************************************************************************)
(* Campus navigation and event manager: the container library              *)
(* (BinarySearchTree, Graph, DoublyLinkedList, Stack) and the EventsManager *)
(* built on it, as state machines.                                          *)
(*                                                                          *)
(* One specification per component:                                         *)
(*   SpecBST     BinarySearchTree under insert / delete / clear             *)
(*   SpecGraph   Graph under add_vertex / add_edge / route loading, with    *)
(*               dijkstra evaluated on every graph built                    *)
(*   SpecEvents  EventsManager under add / delete / edit / undo / redo      *)
(*   SpecList    DoublyLinkedList under its insert / delete / update calls  *)
(*   SpecStack   Stack under push / pop / clear / set_max_size              *)
(* The variables of the other components keep their constructed value.      *)
(***************************************************************************)
EXTENDS Integers, Sequences, FiniteSets, TLC

VARIABLES
    root, size,                 \* BinarySearchTree.root, BinarySearchTree.size
    bst_last,                   \* history: the last BinarySearchTree call
    vertices, adjacency_list,   \* Graph.vertices, Graph.adjacency_list
    events_list,                \* EventsManager.events_list (DoublyLinkedList)
    undo_stack, redo_stack,     \* EventsManager.undo_stack / redo_stack (Stack)
    hist,                       \* history: the EventsManager calls made so far
    linked_list,                \* a DoublyLinkedList used on its own
    list_last,                  \* history: the last DoublyLinkedList call
    stack,                      \* a Stack used on its own
    stack_last,                 \* history: the last Stack call
    pushed,                     \* history: the number of objects pushed so far
    the_queue,                  \* a Queue used on its own
    queue_last,                 \* history: the last Queue call
    enqueued,                   \* history: the number of objects enqueued so far
    task_queue,                 \* TaskScheduler.task_queue (Queue)
    completed_tasks,            \* TaskScheduler.completed_tasks
    total_tasks_created,        \* TaskScheduler.total_tasks_created
    total_tasks_completed,      \* TaskScheduler.total_tasks_completed
    tasks_log,                  \* history: the tasks added and the tasks returned
    calls_made,                 \* history: the add_vertex / add_edge calls made
    search,                     \* a find_all_paths call, iteration by iteration
    event_tree,                 \* the EventSearchTree: bst, event_counter, categories
    tree_last,                  \* history: the last EventSearchTree call
    startup                     \* the CLI's construction: stored records, phase, exception

bst_vars    == <<root, size, bst_last>>
graph_vars  == <<vertices, adjacency_list>>
events_vars == <<events_list, undo_stack, redo_stack, hist>>
list_vars   == <<linked_list, list_last>>
stack_vars  == <<stack, stack_last, pushed>>
queue_vars  == <<the_queue, queue_last, enqueued>>
sched_vars  == <<task_queue, completed_tasks, total_tasks_created,
                 total_tasks_completed, tasks_log>>
tree_vars   == <<event_tree, tree_last>>
vars        == <<bst_vars, graph_vars, events_vars, list_vars, stack_vars,
                 queue_vars, sched_vars, calls_made, search, tree_vars, startup>>

\* The variables of all components but one.
NotBst    == <<startup, search, tree_vars, graph_vars, calls_made, events_vars, list_vars, stack_vars,
               queue_vars, sched_vars>>
NotGraph  == <<startup, search, tree_vars, bst_vars, calls_made, events_vars, list_vars, stack_vars,
               queue_vars, sched_vars>>
NotBuild  == <<startup, search, tree_vars, bst_vars, events_vars, list_vars, stack_vars, queue_vars, sched_vars>>
NotEvents == <<startup, search, tree_vars, bst_vars, graph_vars, calls_made, list_vars, stack_vars,
               queue_vars, sched_vars>>
NotList   == <<startup, search, tree_vars, bst_vars, graph_vars, calls_made, events_vars, stack_vars,
               queue_vars, sched_vars>>
NotStack  == <<startup, search, tree_vars, bst_vars, graph_vars, calls_made, events_vars, list_vars,
               queue_vars, sched_vars>>
NotQueue  == <<startup, search, tree_vars, bst_vars, graph_vars, calls_made, events_vars, list_vars,
               stack_vars, sched_vars>>
NotSched  == <<startup, search, tree_vars, bst_vars, graph_vars, calls_made, events_vars, list_vars,
               stack_vars, queue_vars>>

NotSearch == <<startup, tree_vars, bst_vars, events_vars, list_vars, stack_vars, queue_vars,
               sched_vars>>
NotTree   == <<startup, search, bst_vars, graph_vars, calls_made, events_vars, list_vars,
               stack_vars, queue_vars, sched_vars>>

NotStartup == <<search, tree_vars, bst_vars, calls_made, list_vars, stack_vars,
                queue_vars, sched_vars>>

\* Python's None: the absent node, the absent result.
None == <<>>

(***************************************************************************)
(* Bounds of the model.                                                    *)
(***************************************************************************)
MaxKey == 4          \* tree keys are 1..MaxKey
MaxVal == 2          \* tree values are 1..MaxVal
MaxOps == 4          \* EventsManager calls explored after the initial state
NumVertices == 3     \* vertices added one call at a time are 1..NumVertices
MaxWeight == 1       \* weights of edges added one call at a time are 0..MaxWeight
MaxEdges == 2        \* add_edge is called while the graph has fewer edges
MaxPaths == 3        \* max_paths arguments are 1, MaxPaths and the default
MaxLen == 3          \* the list used on its own grows to MaxLen nodes
MaxItems == 3        \* the stack used on its own grows to MaxItems items
MaxSize == 2         \* set_max_size arguments are None and 0..MaxSize
MaxObjects == 4      \* objects handed to the stack or queue used on its own
MaxTasks == 3        \* tasks added to the scheduler after its sample tasks
MaxStored == 4       \* records in data/events.json when the program starts
MaxCalls == 2        \* add_event / delete_event calls on the EventSearchTree
MaxRoutes == 2       \* add_edge calls made before find_all_paths is followed step by step
MaxChain == 7        \* keys 1..N are inserted into an empty tree for N up to MaxChain

Keys   == 1..MaxKey
\* Tree values are opaque objects (EventNode records in the application).
Values == {[id |-> v] : v \in 1..MaxVal}

(***************************************************************************)
(* BinarySearchTree  (src/data_structures/binary_tree.py)                  *)
(* A tree is None or a TreeNode record; a BinarySearchTree is the record   *)
(* [root, size].  Operations return the updated object and the call's      *)
(* return value.                                                           *)
(***************************************************************************)
TreeNode(key, value) == [key |-> key, value |-> value, left |-> None, right |-> None]

BinarySearchTree == [root |-> None, size |-> 0]

RECURSIVE _insert_recursive(_, _, _, _)
\* Returns the node after the call, the size counter after the call and the
\* boolean the call returns.
_insert_recursive(node, key, value, sz) ==
    IF key = node.key
    THEN [node |-> [node EXCEPT !.value = value], size |-> sz, ret |-> FALSE]
    ELSE IF key < node.key
    THEN IF node.left = None
         THEN [node |-> [node EXCEPT !.left = TreeNode(key, value)],
               size |-> sz + 1, ret |-> TRUE]
         ELSE LET r == _insert_recursive(node.left, key, value, sz)
              IN  [node |-> [node EXCEPT !.left = r.node], size |-> r.size, ret |-> r.ret]
    ELSE IF node.right = None
         THEN [node |-> [node EXCEPT !.right = TreeNode(key, value)],
               size |-> sz + 1, ret |-> TRUE]
         ELSE LET r == _insert_recursive(node.right, key, value, sz)
              IN  [node |-> [node EXCEPT !.right = r.node], size |-> r.size, ret |-> r.ret]

\* Mutant of insert: the size counter is also incremented when the key exists.
BST_insert_counts_overwrite(t, key, value) ==
    IF t.root = None
    THEN [root |-> TreeNode(key, value), size |-> t.size + 1, ret |-> TRUE]
    ELSE LET r == _insert_recursive(t.root, key, value, t.size)
         IN  [root |-> r.node, size |-> t.size + 1, ret |-> r.ret]

\* Mutant of insert: an existing key keeps its old value.
BST_insert_keeps_old_value(t, key, value) ==
    IF t.root = None
    THEN [root |-> TreeNode(key, value), size |-> t.size + 1, ret |-> TRUE]
    ELSE LET r == _insert_recursive(t.root, key, value, t.size)
         IN  IF r.ret THEN [root |-> r.node, size |-> r.size, ret |-> r.ret]
                      ELSE [root |-> t.root, size |-> r.size, ret |-> r.ret]

BST_insert(t, key, value) ==
    IF t.root = None
    THEN [root |-> TreeNode(key, value), size |-> t.size + 1, ret |-> TRUE]
    ELSE LET r == _insert_recursive(t.root, key, value, t.size)
         IN  [root |-> r.node, size |-> r.size, ret |-> r.ret]

RECURSIVE _search_recursive(_, _)
_search_recursive(node, key) ==
    IF node = None THEN None
    ELSE IF key = node.key THEN node.value
    ELSE IF key < node.key THEN _search_recursive(node.left, key)
    ELSE _search_recursive(node.right, key)

BST_search(t, key) == IF t.root = None THEN None ELSE _search_recursive(t.root, key)

RECURSIVE _find_max_mutant(_)
\* Mutant of _find_min: descends to the right, yielding the largest key.
_find_max_mutant(node) ==
    IF node.right # None THEN _find_max_mutant(node.right) ELSE node

RECURSIVE _find_min(_)
_find_min(node) == IF node.left # None THEN _find_min(node.left) ELSE node

RECURSIVE _delete_recursive_keeps_value(_, _)
\* Mutant of _delete_recursive: a node with two children takes its
\* successor's key but keeps its own value.
_delete_recursive_keeps_value(node, key) ==
    IF node = None THEN [node |-> None, deleted |-> FALSE]
    ELSE IF key < node.key
    THEN LET r == _delete_recursive_keeps_value(node.left, key)
         IN  [node |-> [node EXCEPT !.left = r.node], deleted |-> r.deleted]
    ELSE IF key > node.key
    THEN LET r == _delete_recursive_keeps_value(node.right, key)
         IN  [node |-> [node EXCEPT !.right = r.node], deleted |-> r.deleted]
    ELSE IF node.left = None THEN [node |-> node.right, deleted |-> TRUE]
    ELSE IF node.right = None THEN [node |-> node.left, deleted |-> TRUE]
    ELSE LET successor == _find_min(node.right)
             r == _delete_recursive_keeps_value(node.right, successor.key)
         IN  [node |-> [key |-> successor.key, value |-> node.value,
                        left |-> node.left, right |-> r.node],
              deleted |-> TRUE]

RECURSIVE _delete_recursive(_, _)
\* Returns the subtree after the call and the flag "deleted".
_delete_recursive(node, key) ==
    IF node = None THEN [node |-> None, deleted |-> FALSE]
    ELSE IF key < node.key
    THEN LET r == _delete_recursive(node.left, key)
         IN  [node |-> [node EXCEPT !.left = r.node], deleted |-> r.deleted]
    ELSE IF key > node.key
    THEN LET r == _delete_recursive(node.right, key)
         IN  [node |-> [node EXCEPT !.right = r.node], deleted |-> r.deleted]
    ELSE IF node.left = None THEN [node |-> node.right, deleted |-> TRUE]
    ELSE IF node.right = None THEN [node |-> node.left, deleted |-> TRUE]
    ELSE LET successor == _find_min(node.right)
             r == _delete_recursive(node.right, successor.key)
         IN  [node |-> [key |-> successor.key, value |-> successor.value,
                        left |-> node.left, right |-> r.node],
              deleted |-> TRUE]

\* Mutant of delete: the size counter is decremented whether or not a node
\* was removed.
BST_delete_always_counts(t, key) ==
    IF t.root = None
    THEN [root |-> t.root, size |-> t.size, ret |-> FALSE]
    ELSE LET r == _delete_recursive(t.root, key)
         IN  [root |-> r.node, size |-> t.size - 1, ret |-> r.deleted]

BST_delete(t, key) ==
    IF t.root = None
    THEN [root |-> t.root, size |-> t.size, ret |-> FALSE]
    ELSE LET r == _delete_recursive(t.root, key)
         IN  [root |-> r.node,
              size |-> IF r.deleted THEN t.size - 1 ELSE t.size,
              ret  |-> r.deleted]

BST_clear(t) == [root |-> None, size |-> 0, ret |-> None]

RECURSIVE _inorder_recursive(_, _)
\* result with the (key, value) pairs of node's subtree appended, left to right.
_inorder_recursive(node, result) ==
    IF node # None
    THEN _inorder_recursive(node.right,
            Append(_inorder_recursive(node.left, result), <<node.key, node.value>>))
    ELSE result

BST_inorder_traversal(t) == _inorder_recursive(t.root, <<>>)

Max(a, b) == IF a >= b THEN a ELSE b
Abs(a) == IF a >= 0 THEN a ELSE -a

RECURSIVE _get_height_recursive(_)
_get_height_recursive(node) ==
    IF node = None THEN -1
    ELSE Max(_get_height_recursive(node.left), _get_height_recursive(node.right)) + 1

BST_get_height(t) == _get_height_recursive(t.root)

RECURSIVE _is_balanced_recursive_tolerant(_)
\* Mutant of _is_balanced_recursive: heights may differ by two.
_is_balanced_recursive_tolerant(node) ==
    IF node = None THEN 0
    ELSE LET left_height == _is_balanced_recursive_tolerant(node.left)
         IN  IF left_height = -1 THEN -1
             ELSE LET right_height == _is_balanced_recursive_tolerant(node.right)
                  IN  IF right_height = -1 THEN -1
                      ELSE IF Abs(left_height - right_height) > 2 THEN -1
                      ELSE Max(left_height, right_height) + 1

RECURSIVE _is_balanced_recursive(_)
\* The number of levels of node's subtree, or -1 when it is not balanced.
_is_balanced_recursive(node) ==
    IF node = None THEN 0
    ELSE LET left_height == _is_balanced_recursive(node.left)
         IN  IF left_height = -1 THEN -1
             ELSE LET right_height == _is_balanced_recursive(node.right)
                  IN  IF right_height = -1 THEN -1
                      ELSE IF Abs(left_height - right_height) > 1 THEN -1
                      ELSE Max(left_height, right_height) + 1

BST_is_balanced(t) == _is_balanced_recursive(t.root) # -1

(***************************************************************************)
(* The BinarySearchTree as a state machine.  bst_last records the last     *)
(* call: its name, arguments, return value and the object before it.       *)
(***************************************************************************)
Tree == [root |-> root, size |-> size]

BstCall(name, key, value, r) ==
    /\ root' = r.root
    /\ size' = r.size
    /\ bst_last' = [op |-> name, key |-> key, value |-> value, ret |-> r.ret,
                    pre_root |-> root, pre_size |-> size]

Insert == \E key \in Keys, value \in Values :
              BstCall("insert", key, value, BST_insert(Tree, key, value))

Delete == \E key \in Keys : BstCall("delete", key, None, BST_delete(Tree, key))

\* insert called with one and the same value for every key.
InsertKey == \E key \in Keys :
    BstCall("insert", key, [id |-> 1], BST_insert(Tree, key, [id |-> 1]))

Clear == BstCall("clear", None, None, BST_clear(Tree))

InitBST ==
    /\ root = BinarySearchTree.root
    /\ size = BinarySearchTree.size
    /\ bst_last = [op |-> "init", key |-> None, value |-> None, ret |-> None,
                   pre_root |-> None, pre_size |-> 0]


(***************************************************************************)
(* DoublyLinkedList  (src/data_structures/linked_list.py)                  *)
(* The heap of Node objects is the function `nodes` from node identities   *)
(* to [data, prev, next]; a reference is <<identity>> or None.  A list is  *)
(* the record [head, tail, size, nodes].                                   *)
(***************************************************************************)
Node(data) == [data |-> data, prev |-> None, next |-> None]

DoublyLinkedList == [head |-> None, tail |-> None, size |-> 0, nodes |-> <<>>]

\* The object behind a reference.
Deref(l, ref) == l.nodes[ref[1]]

\* A reference to a newly allocated Node(data): the first unused identity.
NewRef(l) == <<CHOOSE i \in 1..(Cardinality(DOMAIN l.nodes) + 1) : i \notin DOMAIN l.nodes>>

\* The heap with the object behind ref replaced by obj (or added).
Store(nodes, ref, obj) ==
    [i \in DOMAIN nodes \cup {ref[1]} |-> IF i = ref[1] THEN obj ELSE nodes[i]]

RECURSIVE ReachableIds(_, _)
ReachableIds(nodes, S) ==
    LET T == S \cup {nodes[i].next[1] : i \in {j \in S : nodes[j].next # None}}
               \cup {nodes[i].prev[1] : i \in {j \in S : nodes[j].prev # None}}
    IN  IF T = S THEN S ELSE ReachableIds(nodes, T)

\* Python's memory management: a Node no longer reachable from the list is freed.
Collect(l) ==
    LET roots == {r[1] : r \in {l.head, l.tail} \ {None}}
        live  == ReachableIds(l.nodes, roots)
    IN  [l EXCEPT !.nodes = [i \in live |-> l.nodes[i]]]

DLL_is_empty(l) == l.head = None

DLL_get_size(l) == l.size

DLL_insert_at_beginning(l, data) ==
    LET new_node == NewRef(l)
    IN  IF DLL_is_empty(l)
        THEN [l EXCEPT !.nodes = Store(l.nodes, new_node, Node(data)),
                       !.head = new_node, !.tail = new_node, !.size = l.size + 1]
        ELSE LET n1 == Store(l.nodes, new_node, [Node(data) EXCEPT !.next = l.head])
                 n2 == Store(n1, l.head, [n1[l.head[1]] EXCEPT !.prev = new_node])
             IN  [l EXCEPT !.nodes = n2, !.head = new_node, !.size = l.size + 1]

DLL_insert_at_end(l, data) ==
    LET new_node == NewRef(l)
    IN  IF DLL_is_empty(l)
        THEN [l EXCEPT !.nodes = Store(l.nodes, new_node, Node(data)),
                       !.head = new_node, !.tail = new_node, !.size = l.size + 1]
        ELSE LET n1 == Store(l.nodes, new_node, [Node(data) EXCEPT !.prev = l.tail])
                 n2 == Store(n1, l.tail, [n1[l.tail[1]] EXCEPT !.next = new_node])
             IN  [l EXCEPT !.nodes = n2, !.tail = new_node, !.size = l.size + 1]

RECURSIVE Advance(_, _, _)
\* "for _ in range(position): current = current.next"
Advance(l, current, position) ==
    IF position <= 0 THEN current
    ELSE Advance(l, Deref(l, current).next, position - 1)

\* Mutant of insert_at_position: positions 0 and 1 both insert at the
\* beginning.
DLL_insert_at_position_off_by_one(l, data, position) ==
    IF position < 0 \/ position > l.size THEN [list |-> l, ret |-> FALSE]
    ELSE IF position <= 1 THEN [list |-> DLL_insert_at_beginning(l, data), ret |-> TRUE]
    ELSE IF position = l.size THEN [list |-> DLL_insert_at_end(l, data), ret |-> TRUE]
    ELSE LET new_node == NewRef(l)
             current  == Advance(l, l.head, position)
             before   == Deref(l, current).prev
             n1 == Store(l.nodes, new_node,
                         [Node(data) EXCEPT !.prev = before, !.next = current])
             n2 == Store(n1, before, [n1[before[1]] EXCEPT !.next = new_node])
             n3 == Store(n2, current, [n2[current[1]] EXCEPT !.prev = new_node])
         IN  [list |-> [l EXCEPT !.nodes = n3, !.size = l.size + 1], ret |-> TRUE]

\* Returns the list after the call and the call's return value.
DLL_insert_at_position(l, data, position) ==
    IF position < 0 \/ position > l.size THEN [list |-> l, ret |-> FALSE]
    ELSE IF position = 0 THEN [list |-> DLL_insert_at_beginning(l, data), ret |-> TRUE]
    ELSE IF position = l.size THEN [list |-> DLL_insert_at_end(l, data), ret |-> TRUE]
    ELSE LET new_node == NewRef(l)
             current  == Advance(l, l.head, position)
             before   == Deref(l, current).prev
             n1 == Store(l.nodes, new_node,
                         [Node(data) EXCEPT !.prev = before, !.next = current])
             n2 == Store(n1, before, [n1[before[1]] EXCEPT !.next = new_node])
             n3 == Store(n2, current, [n2[current[1]] EXCEPT !.prev = new_node])
         IN  [list |-> [l EXCEPT !.nodes = n3, !.size = l.size + 1], ret |-> TRUE]

DLL_delete_from_beginning(l) ==
    IF DLL_is_empty(l) THEN [list |-> l, ret |-> None]
    ELSE LET data == Deref(l, l.head).data
         IN  IF l.head = l.tail
             THEN [list |-> Collect([l EXCEPT !.head = None, !.tail = None,
                                              !.size = l.size - 1]),
                   ret |-> data]
             ELSE LET h  == Deref(l, l.head).next
                      n1 == Store(l.nodes, h, [l.nodes[h[1]] EXCEPT !.prev = None])
                  IN  [list |-> Collect([l EXCEPT !.nodes = n1, !.head = h,
                                                   !.size = l.size - 1]),
                       ret |-> data]

\* Mutant of delete_from_end: the new tail keeps its next link.
DLL_delete_from_end_keeps_link(l) ==
    IF DLL_is_empty(l) THEN [list |-> l, ret |-> None]
    ELSE LET data == Deref(l, l.tail).data
         IN  IF l.head = l.tail
             THEN [list |-> Collect([l EXCEPT !.head = None, !.tail = None,
                                              !.size = l.size - 1]),
                   ret |-> data]
             ELSE [list |-> Collect([l EXCEPT !.tail = Deref(l, l.tail).prev,
                                              !.size = l.size - 1]),
                   ret |-> data]

DLL_delete_from_end(l) ==
    IF DLL_is_empty(l) THEN [list |-> l, ret |-> None]
    ELSE LET data == Deref(l, l.tail).data
         IN  IF l.head = l.tail
             THEN [list |-> Collect([l EXCEPT !.head = None, !.tail = None,
                                              !.size = l.size - 1]),
                   ret |-> data]
             ELSE LET t  == Deref(l, l.tail).prev
                      n1 == Store(l.nodes, t, [l.nodes[t[1]] EXCEPT !.next = None])
                  IN  [list |-> Collect([l EXCEPT !.nodes = n1, !.tail = t,
                                                   !.size = l.size - 1]),
                       ret |-> data]

\* Mutant of delete_at_position: a position past the end deletes the last
\* element.
DLL_delete_at_position_clamps(l, position) ==
    IF position < 0 THEN [list |-> l, ret |-> None]
    ELSE IF position = 0 THEN DLL_delete_from_beginning(l)
    ELSE IF position >= l.size - 1 THEN DLL_delete_from_end(l)
    ELSE LET current == Advance(l, l.head, position)
             data    == Deref(l, current).data
             before  == Deref(l, current).prev
             after   == Deref(l, current).next
             n1 == Store(l.nodes, before, [l.nodes[before[1]] EXCEPT !.next = after])
             n2 == Store(n1, after, [n1[after[1]] EXCEPT !.prev = before])
         IN  [list |-> Collect([l EXCEPT !.nodes = n2, !.size = l.size - 1]),
              ret |-> data]

DLL_delete_at_position(l, position) ==
    IF position < 0 \/ position >= l.size THEN [list |-> l, ret |-> None]
    ELSE IF position = 0 THEN DLL_delete_from_beginning(l)
    ELSE IF position = l.size - 1 THEN DLL_delete_from_end(l)
    ELSE LET current == Advance(l, l.head, position)
             data    == Deref(l, current).data
             before  == Deref(l, current).prev
             after   == Deref(l, current).next
             n1 == Store(l.nodes, before, [l.nodes[before[1]] EXCEPT !.next = after])
             n2 == Store(n1, after, [n1[after[1]] EXCEPT !.prev = before])
         IN  [list |-> Collect([l EXCEPT !.nodes = n2, !.size = l.size - 1]),
              ret |-> data]

DLL_get_at_position(l, position) ==
    IF position < 0 \/ position >= l.size THEN None
    ELSE Deref(l, Advance(l, l.head, position)).data

DLL_update_at_position(l, position, new_data) ==
    IF position < 0 \/ position >= l.size THEN [list |-> l, ret |-> FALSE]
    ELSE LET current == Advance(l, l.head, position)
         IN  [list |-> [l EXCEPT !.nodes = Store(l.nodes, current,
                                      [Deref(l, current) EXCEPT !.data = new_data])],
              ret |-> TRUE]

RECURSIVE DLL_delete_by_value_from(_, _, _)
\* "while current:" of delete_by_value.
DLL_delete_by_value_from(l, current, value) ==
    IF current = None THEN [list |-> l, ret |-> FALSE]
    ELSE IF Deref(l, current).data = value
    THEN IF current = l.head
         THEN [list |-> DLL_delete_from_beginning(l).list, ret |-> TRUE]
         ELSE IF current = l.tail
         THEN [list |-> DLL_delete_from_end(l).list, ret |-> TRUE]
         ELSE LET before == Deref(l, current).prev
                  after  == Deref(l, current).next
                  n1 == Store(l.nodes, before, [l.nodes[before[1]] EXCEPT !.next = after])
                  n2 == Store(n1, after, [n1[after[1]] EXCEPT !.prev = before])
              IN  [list |-> Collect([l EXCEPT !.nodes = n2, !.size = l.size - 1]),
                   ret |-> TRUE]
    ELSE DLL_delete_by_value_from(l, Deref(l, current).next, value)

DLL_delete_by_value(l, value) == DLL_delete_by_value_from(l, l.head, value)

RECURSIVE DLL_search_from(_, _, _, _)
\* "while current:" of search; the position found is returned as <<position>>.
DLL_search_from(l, current, position, value) ==
    IF current = None THEN None
    ELSE IF Deref(l, current).data = value THEN <<position>>
    ELSE DLL_search_from(l, Deref(l, current).next, position + 1, value)

\* Mutant of search: positions are counted from 1.
DLL_search_one_based(l, value) == DLL_search_from(l, l.head, 1, value)

DLL_search(l, value) == DLL_search_from(l, l.head, 0, value)

DLL_clear(l) == Collect([l EXCEPT !.head = None, !.tail = None, !.size = 0])

RECURSIVE DLL_to_list_from(_, _, _)
DLL_to_list_from(l, current, result) ==
    IF current # None
    THEN DLL_to_list_from(l, Deref(l, current).next, Append(result, Deref(l, current).data))
    ELSE result

DLL_to_list(l) == DLL_to_list_from(l, l.head, <<>>)

(***************************************************************************)
(* Stack  (src/data_structures/stack.py): the record [items, max_size],    *)
(* the top of the stack being the last item.  max_size is None or <<n>>.   *)
(***************************************************************************)
Stack(max_size) == [items |-> <<>>, max_size |-> max_size]

Stack_is_empty(s) == Len(s.items) = 0

Stack_is_full(s) == IF s.max_size = None THEN FALSE ELSE Len(s.items) >= s.max_size[1]

Stack_size(s) == Len(s.items)

Stack_push(s, item) ==
    IF Stack_is_full(s) THEN [stack |-> s, ret |-> FALSE]
    ELSE [stack |-> [s EXCEPT !.items = Append(s.items, item)], ret |-> TRUE]

\* Mutant of pop: the bottom item is removed and returned.
Stack_pop_from_bottom(s) ==
    IF Stack_is_empty(s) THEN [stack |-> s, ret |-> None]
    ELSE [stack |-> [s EXCEPT !.items = Tail(s.items)], ret |-> Head(s.items)]

Stack_pop(s) ==
    IF Stack_is_empty(s) THEN [stack |-> s, ret |-> None]
    ELSE [stack |-> [s EXCEPT !.items = SubSeq(s.items, 1, Len(s.items) - 1)],
          ret |-> s.items[Len(s.items)]]

Stack_clear(s) == [s EXCEPT !.items = <<>>]

\* "return self.items.copy()": a new list with the items in the order of
\* self.items.
Stack_to_list(s) == [stack |-> s, ret |-> s.items]

\* Python's items[start:] for any integer start.
SliceFrom(items, start) ==
    LET n     == Len(items)
        first == IF start < 0 THEN (IF n + start < 0 THEN 0 ELSE n + start)
                 ELSE (IF start > n THEN n ELSE start)
    IN  SubSeq(items, first + 1, n)

\* max_size is None or <<n>>.
Stack_set_max_size(s, max_size) ==
    IF max_size # None /\ Len(s.items) > max_size[1]
    THEN [items |-> SliceFrom(s.items, -max_size[1]), max_size |-> max_size]
    ELSE [items |-> s.items, max_size |-> max_size]

(***************************************************************************)
(* Queue  (src/data_structures/queue.py): the record [items, max_size],    *)
(* the front of the queue being the first item.  max_size is None or       *)
(* <<n>>.  Operations that can raise return the exception's name in        *)
(* `raised` (None when the call returns normally).                         *)
(***************************************************************************)
Queue(max_size) == [items |-> <<>>, max_size |-> max_size]

Queue_is_empty(q) == Len(q.items) = 0

\* Mutant of is_full: full only beyond the maximum size.
Queue_is_full_beyond(q) == IF q.max_size = None THEN FALSE ELSE Len(q.items) > q.max_size[1]

Queue_is_full(q) == IF q.max_size = None THEN FALSE ELSE Len(q.items) >= q.max_size[1]

Queue_size(q) == Len(q.items)

Queue_enqueue(q, item) ==
    IF Queue_is_full(q) THEN [queue |-> q, ret |-> FALSE]
    ELSE [queue |-> [q EXCEPT !.items = Append(q.items, item)], ret |-> TRUE]

\* Mutant of dequeue: the last item is removed and returned.
Queue_dequeue_from_back(q) ==
    IF Queue_is_empty(q) THEN [queue |-> q, ret |-> None]
    ELSE [queue |-> [q EXCEPT !.items = SubSeq(q.items, 1, Len(q.items) - 1)],
          ret |-> q.items[Len(q.items)]]

Queue_dequeue(q) ==
    IF Queue_is_empty(q) THEN [queue |-> q, ret |-> None]
    ELSE [queue |-> [q EXCEPT !.items = Tail(q.items)], ret |-> Head(q.items)]

Queue_peek(q) == IF Queue_is_empty(q) THEN None ELSE q.items[1]

Queue_clear(q) == [q EXCEPT !.items = <<>>]

Queue_to_list(q) == q.items

RECURSIVE Queue_trim(_, _)
\* "while len(self.items) > max_size: self.items.popleft()"; popleft on an
\* empty deque raises IndexError.
Queue_trim(items, max_size) ==
    IF Len(items) > max_size
    THEN IF items = <<>> THEN [items |-> items, raised |-> <<"IndexError">>]
         ELSE Queue_trim(Tail(items), max_size)
    ELSE [items |-> items, raised |-> None]

\* max_size is None or <<n>>.  Returns the queue after the call and the
\* exception raised, if any.
Queue_set_max_size(q, max_size) ==
    IF max_size # None /\ Len(q.items) > max_size[1]
    THEN LET t == Queue_trim(q.items, max_size[1])
         IN  [queue |-> [items |-> t.items, max_size |-> max_size],
              ret |-> None, raised |-> t.raised]
    ELSE [queue |-> [items |-> q.items, max_size |-> max_size],
          ret |-> None, raised |-> None]

Queue_contains(q, item) == \E i \in 1..Len(q.items) : q.items[i] = item

\* "self.items.remove(item)" removes the first occurrence; its ValueError
\* is caught.
Queue_remove(q, item) ==
    IF Queue_contains(q, item)
    THEN LET i == CHOOSE j \in 1..Len(q.items) :
                     /\ q.items[j] = item
                     /\ \A k \in 1..(j - 1) : q.items[k] # item
         IN  [queue |-> [q EXCEPT !.items = SubSeq(q.items, 1, i - 1) \o
                                             SubSeq(q.items, i + 1, Len(q.items))],
              ret |-> TRUE]
    ELSE [queue |-> q, ret |-> FALSE]


(***************************************************************************)
(* TaskScheduler  (src/task_scheduler.py): the record [task_queue,         *)
(* completed_tasks, total_tasks_created, total_tasks_completed].  A Task   *)
(* is an object told apart by its identity, with its completed flag; its   *)
(* texts and timestamps play no part in scheduling.                        *)
(***************************************************************************)
Task(id) == [id |-> id, completed |-> FALSE]

mark_completed(task) == [task EXCEPT !.completed = TRUE]

\* Returns the scheduler after the call and the call's return value.
add_task(sch, task) ==
    LET e == Queue_enqueue(sch.task_queue, task)
    IN  IF e.ret
        THEN [sch |-> [sch EXCEPT !.task_queue = e.queue,
                                  !.total_tasks_created = @ + 1],
              ret |-> TRUE]
        ELSE [sch |-> sch, ret |-> FALSE]

complete_next_task(sch) ==
    LET d == Queue_dequeue(sch.task_queue)
    IN  IF d.ret # None
        THEN LET task == mark_completed(d.ret)
             IN  [sch |-> [sch EXCEPT !.task_queue = d.queue,
                                      !.completed_tasks = Append(@, task),
                                      !.total_tasks_completed = @ + 1],
                  ret |-> task]
        ELSE [sch |-> [sch EXCEPT !.task_queue = d.queue], ret |-> None]

peek_next_task(sch) == Queue_peek(sch.task_queue)

get_pending_tasks(sch) == Queue_to_list(sch.task_queue)

clear_completed_tasks(sch) == [sch EXCEPT !.completed_tasks = <<>>]

\* The five sample tasks of load_sample_tasks.
SampleTasks == 5

RECURSIVE load_sample_tasks(_, _)
\* "for task in sample_tasks: self.add_task(task)", from the i-th task on.
load_sample_tasks(sch, i) ==
    IF i > SampleTasks THEN sch
    ELSE load_sample_tasks(add_task(sch, Task(i)).sch, i + 1)

TaskScheduler ==
    load_sample_tasks([task_queue |-> Queue(None), completed_tasks |-> <<>>,
                       total_tasks_created |-> 0, total_tasks_completed |-> 0], 1)

(***************************************************************************)
(* EventsManager  (src/events_manager.py): the record                      *)
(* [events_list, undo_stack, redo_stack].  Events are opaque objects; an   *)
(* Event object is always truthy, None is not.                             *)
(***************************************************************************)
Event(title) == [title |-> title]

Events == {Event("a"), Event("b")}

HistoryLimit == 50      \* Stack(max_size=50)

ADD_EVENT    == "ADD"
DELETE_EVENT == "DELETE"
EDIT_EVENT   == "EDIT"

Truthy(x) == x # None

EventsManager ==
    [events_list |-> DoublyLinkedList,
     undo_stack  |-> Stack(<<HistoryLimit>>),
     redo_stack  |-> Stack(<<HistoryLimit>>)]

\* Mutant of add_event: the redo stack is not cleared.
add_event_keeps_redo(m, event) ==
    LET command == [type |-> DELETE_EVENT,
                    position |-> DLL_get_size(m.events_list),
                    event |-> event]
    IN  [m |-> [events_list |-> DLL_insert_at_end(m.events_list, event),
                undo_stack  |-> Stack_push(m.undo_stack, command).stack,
                redo_stack  |-> m.redo_stack],
         ret |-> TRUE]

add_event(m, event) ==
    LET command == [type |-> DELETE_EVENT,
                    position |-> DLL_get_size(m.events_list),
                    event |-> event]
    IN  [m |-> [events_list |-> DLL_insert_at_end(m.events_list, event),
                undo_stack  |-> Stack_push(m.undo_stack, command).stack,
                redo_stack  |-> Stack_clear(m.redo_stack)],
         ret |-> TRUE]

delete_event(m, position) ==
    IF position < 0 \/ position >= DLL_get_size(m.events_list)
    THEN [m |-> m, ret |-> None]
    ELSE LET event == DLL_get_at_position(m.events_list, position)
         IN  IF event = None THEN [m |-> m, ret |-> None]
             ELSE LET command == [type |-> ADD_EVENT, position |-> position,
                                  event |-> event]
                      d == DLL_delete_at_position(m.events_list, position)
                  IN  [m |-> [events_list |-> d.list,
                              undo_stack  |-> Stack_push(m.undo_stack, command).stack,
                              redo_stack  |-> Stack_clear(m.redo_stack)],
                       ret |-> d.ret]

edit_event(m, position, new_event) ==
    IF position < 0 \/ position >= DLL_get_size(m.events_list)
    THEN [m |-> m, ret |-> FALSE]
    ELSE LET old_event == DLL_get_at_position(m.events_list, position)
         IN  IF old_event = None THEN [m |-> m, ret |-> FALSE]
             ELSE LET command == [type |-> EDIT_EVENT, position |-> position,
                                  old_event |-> old_event, new_event |-> new_event]
                      u == DLL_update_at_position(m.events_list, position, new_event)
                  IN  [m |-> [events_list |-> u.list,
                              undo_stack  |-> Stack_push(m.undo_stack, command).stack,
                              redo_stack  |-> Stack_clear(m.redo_stack)],
                       ret |-> u.ret]

undo(m) ==
    IF Stack_is_empty(m.undo_stack) THEN [m |-> m, ret |-> FALSE]
    ELSE
    LET p       == Stack_pop(m.undo_stack)
        command == p.ret
        m1      == [m EXCEPT !.undo_stack = p.stack]
    IN  IF command.type = ADD_EVENT
        THEN \* "Undo add: delete the event"
             LET d == DLL_delete_at_position(m1.events_list, command.position)
                 m2 == [m1 EXCEPT !.events_list = d.list]
             IN  IF Truthy(d.ret)
                 THEN LET redo_command == [type |-> ADD_EVENT,
                                           position |-> command.position,
                                           event |-> d.ret]
                      IN  [m |-> [m2 EXCEPT !.redo_stack =
                                      Stack_push(m2.redo_stack, redo_command).stack],
                           ret |-> TRUE]
                 ELSE [m |-> m2, ret |-> FALSE]
        ELSE IF command.type = DELETE_EVENT
        THEN \* "Undo delete: add the event back"
             LET i == DLL_insert_at_position(m1.events_list, command.event,
                                             command.position)
                 redo_command == [type |-> DELETE_EVENT,
                                  position |-> command.position,
                                  event |-> command.event]
             IN  [m |-> [m1 EXCEPT !.events_list = i.list,
                                   !.redo_stack =
                                      Stack_push(m1.redo_stack, redo_command).stack],
                  ret |-> TRUE]
        ELSE IF command.type = EDIT_EVENT
        THEN \* "Undo edit: restore old event"
             LET u == DLL_update_at_position(m1.events_list, command.position,
                                             command.old_event)
                 redo_command == [type |-> EDIT_EVENT,
                                  position |-> command.position,
                                  old_event |-> command.new_event,
                                  new_event |-> command.old_event]
             IN  [m |-> [m1 EXCEPT !.events_list = u.list,
                                   !.redo_stack =
                                      Stack_push(m1.redo_stack, redo_command).stack],
                  ret |-> TRUE]
        ELSE [m |-> m1, ret |-> FALSE]

redo(m) ==
    IF Stack_is_empty(m.redo_stack) THEN [m |-> m, ret |-> FALSE]
    ELSE
    LET p       == Stack_pop(m.redo_stack)
        command == p.ret
        m1      == [m EXCEPT !.redo_stack = p.stack]
    IN  IF command.type = ADD_EVENT
        THEN \* "Redo add: add the event back"
             LET i == DLL_insert_at_position(m1.events_list, command.event,
                                             command.position)
                 undo_command == [type |-> DELETE_EVENT,
                                  position |-> command.position,
                                  event |-> command.event]
             IN  [m |-> [m1 EXCEPT !.events_list = i.list,
                                   !.undo_stack =
                                      Stack_push(m1.undo_stack, undo_command).stack],
                  ret |-> TRUE]
        ELSE IF command.type = DELETE_EVENT
        THEN \* "Redo delete: delete the event"
             LET d == DLL_delete_at_position(m1.events_list, command.position)
                 m2 == [m1 EXCEPT !.events_list = d.list]
             IN  IF Truthy(d.ret)
                 THEN LET undo_command == [type |-> ADD_EVENT,
                                           position |-> command.position,
                                           event |-> d.ret]
                      IN  [m |-> [m2 EXCEPT !.undo_stack =
                                      Stack_push(m2.undo_stack, undo_command).stack],
                           ret |-> TRUE]
                 ELSE [m |-> m2, ret |-> FALSE]
        ELSE IF command.type = EDIT_EVENT
        THEN \* "Redo edit: apply new event"
             LET u == DLL_update_at_position(m1.events_list, command.position,
                                             command.new_event)
                 undo_command == [type |-> EDIT_EVENT,
                                  position |-> command.position,
                                  old_event |-> command.new_event,
                                  new_event |-> command.old_event]
             IN  [m |-> [m1 EXCEPT !.events_list = u.list,
                                   !.undo_stack =
                                      Stack_push(m1.undo_stack, undo_command).stack],
                  ret |-> TRUE]
        ELSE [m |-> m1, ret |-> FALSE]

get_all_events(m) == DLL_to_list(m.events_list)


(***************************************************************************)
(* The EventsManager as a state machine.  hist records, for the initial    *)
(* state and for every call made since, the call, its arguments, its       *)
(* return value, and the event list and stack depths after it.             *)
(***************************************************************************)
Manager == [events_list |-> events_list, undo_stack |-> undo_stack,
            redo_stack |-> redo_stack]

Snapshot(name, position, event, r) ==
    [op |-> name, position |-> position, event |-> event, ret |-> r.ret,
     list |-> get_all_events(r.m),
     undo |-> Stack_size(r.m.undo_stack),
     redo |-> Stack_size(r.m.redo_stack)]

EmCall(name, position, event, r) ==
    /\ Len(hist) <= MaxOps
    /\ events_list' = r.m.events_list
    /\ undo_stack' = r.m.undo_stack
    /\ redo_stack' = r.m.redo_stack
    /\ hist' = Append(hist, Snapshot(name, position, event, r))

\* Positions a caller may pass: every valid one, and one beyond either end.
Positions == -1..DLL_get_size(events_list)

AddEvent == \E event \in Events : EmCall("add_event", None, event, add_event(Manager, event))

DeleteEvent == \E position \in Positions :
    EmCall("delete_event", position, None, delete_event(Manager, position))

EditEvent == \E position \in Positions, new_event \in Events :
    EmCall("edit_event", position, new_event, edit_event(Manager, position, new_event))

Undo == EmCall("undo", None, None, undo(Manager))

Redo == EmCall("redo", None, None, redo(Manager))

RECURSIVE EditRepeatedly(_, _, _)
\* The manager after the edit_event calls number first to last at position
\* 0, the new event alternating between the two events.  The calls are
\* made half by half, the second half once the first has changed the
\* manager.
EditRepeatedly(m, first, last) ==
    IF first > last THEN m
    ELSE IF first = last
    THEN edit_event(m, 0, IF first % 2 = 0 THEN Event("a") ELSE Event("b")).m
    ELSE LET middle == (first + last) \div 2
             half   == EditRepeatedly(m, first, middle)
         IN  IF half = m THEN m ELSE EditRepeatedly(half, middle + 1, last)

\* A manager late in a session: one event added, then edited until the undo
\* history holds HistoryLimit commands.
LongSession == EditRepeatedly(add_event(EventsManager, Event("a")).m, 1, HistoryLimit - 1)

EventsAt(m) ==
    /\ events_list = m.events_list
    /\ undo_stack = m.undo_stack
    /\ redo_stack = m.redo_stack
    /\ hist = <<Snapshot("init", None, None, [m |-> m, ret |-> None])>>

\* The manager as constructed (no events loaded).
InitEvents == EventsAt(EventsManager)

\* The manager as constructed, or late in a session.
InitEventsSession == EventsAt(EventsManager) \/ EventsAt(LongSession)

(***************************************************************************)
(* Graph  (src/data_structures/graph.py): the record                       *)
(* [vertices, adjacency_list], adjacency_list mapping each vertex to the   *)
(* sequence of its <<neighbor, weight>> entries in insertion order.        *)
(* Vertices are numbered in the order of their names, so that tuples       *)
(* (distance, vertex) compare as Python compares them.  Weights are        *)
(* non-negative integers.                                                  *)
(***************************************************************************)
Graph == [vertices |-> {}, adjacency_list |-> <<>>]

\* float('inf'), written as a value no distance takes; compare with Less.
inf == -1

\* a < b on distances, either of which may be inf.
Less(a, b) == a # inf /\ (b = inf \/ a < b)

add_vertex(g, vertex) ==
    [vertices |-> g.vertices \cup {vertex},
     adjacency_list |->
        IF vertex \notin DOMAIN g.adjacency_list
        THEN [v \in DOMAIN g.adjacency_list \cup {vertex} |->
                IF v = vertex THEN <<>> ELSE g.adjacency_list[v]]
        ELSE g.adjacency_list]

\* Mutant of add_edge: the entry of the opposite direction is not stored.
add_edge_one_way(g, from_vertex, to_vertex, weight) ==
    LET g2 == add_vertex(add_vertex(g, from_vertex), to_vertex)
    IN  [g2 EXCEPT !.adjacency_list =
            [g2.adjacency_list EXCEPT
               ![from_vertex] = Append(@, <<to_vertex, weight>>)]]

\* Mutant of add_edge: a pair that already has an entry is not stored again.
add_edge_deduplicated(g, from_vertex, to_vertex, weight) ==
    LET g2 == add_vertex(add_vertex(g, from_vertex), to_vertex)
        a1 == [g2.adjacency_list EXCEPT
                 ![from_vertex] = Append(@, <<to_vertex, weight>>)]
        a2 == [a1 EXCEPT ![to_vertex] = Append(@, <<from_vertex, weight>>)]
    IN  IF \E j \in 1..Len(g2.adjacency_list[from_vertex]) :
              g2.adjacency_list[from_vertex][j][1] = to_vertex
        THEN g2
        ELSE [g2 EXCEPT !.adjacency_list = a2]

add_edge(g, from_vertex, to_vertex, weight) ==
    LET g2 == add_vertex(add_vertex(g, from_vertex), to_vertex)
        a1 == [g2.adjacency_list EXCEPT
                 ![from_vertex] = Append(@, <<to_vertex, weight>>)]
        a2 == [a1 EXCEPT ![to_vertex] = Append(@, <<from_vertex, weight>>)]
    IN  [g2 EXCEPT !.adjacency_list = a2]

get_neighbors(g, vertex) ==
    IF vertex \in DOMAIN g.adjacency_list THEN g.adjacency_list[vertex] ELSE <<>>

RECURSIVE bfs_neighbors(_, _, _, _)
\* "for neighbor, _ in self.get_neighbors(current_vertex):" of bfs from the
\* i-th neighbor on; returns visited and queue after the loop.
bfs_neighbors(neighbors, i, visited, queue) ==
    IF i > Len(neighbors) THEN [visited |-> visited, queue |-> queue]
    ELSE LET neighbor == neighbors[i][1]
         IN  IF neighbor \notin visited
             THEN bfs_neighbors(neighbors, i + 1, visited \cup {neighbor},
                                Append(queue, neighbor))
             ELSE bfs_neighbors(neighbors, i + 1, visited, queue)

RECURSIVE bfs_loop_pops_last(_, _, _, _)
\* Mutant of bfs_loop: the vertex added last is taken from the queue.
bfs_loop_pops_last(g, visited, queue, result) ==
    IF queue = <<>> THEN result
    ELSE LET current_vertex == queue[Len(queue)]
             r == bfs_neighbors(get_neighbors(g, current_vertex), 1, visited,
                                SubSeq(queue, 1, Len(queue) - 1))
         IN  bfs_loop_pops_last(g, r.visited, r.queue, Append(result, current_vertex))

RECURSIVE bfs_loop(_, _, _, _)
\* "while queue:" of bfs.
bfs_loop(g, visited, queue, result) ==
    IF queue = <<>> THEN result
    ELSE LET current_vertex == Head(queue)
             r == bfs_neighbors(get_neighbors(g, current_vertex), 1, visited, Tail(queue))
         IN  bfs_loop(g, r.visited, r.queue, Append(result, current_vertex))

bfs(g, start_vertex) ==
    IF start_vertex \notin g.vertices THEN <<>>
    ELSE bfs_loop(g, {start_vertex}, <<start_vertex>>, <<>>)

RECURSIVE dfs_recursive_last_first(_, _, _, _)
RECURSIVE dfs_neighbors_last_first(_, _, _, _, _)
\* Mutant of dfs_recursive: the neighbors are taken last to first.
dfs_recursive_last_first(g, vertex, visited, result) ==
    dfs_neighbors_last_first(g, get_neighbors(g, vertex), Len(get_neighbors(g, vertex)),
                             visited \cup {vertex}, Append(result, vertex))

dfs_neighbors_last_first(g, neighbors, i, visited, result) ==
    IF i < 1 THEN [visited |-> visited, result |-> result]
    ELSE LET neighbor == neighbors[i][1]
             r == IF neighbor \notin visited
                  THEN dfs_recursive_last_first(g, neighbor, visited, result)
                  ELSE [visited |-> visited, result |-> result]
         IN  dfs_neighbors_last_first(g, neighbors, i - 1, r.visited, r.result)

RECURSIVE dfs_recursive(_, _, _, _)
RECURSIVE dfs_neighbors(_, _, _, _, _)
\* dfs_recursive(vertex) of dfs; returns visited and result after the call.
dfs_recursive(g, vertex, visited, result) ==
    dfs_neighbors(g, get_neighbors(g, vertex), 1,
                  visited \cup {vertex}, Append(result, vertex))

\* "for neighbor, _ in self.get_neighbors(vertex):" of dfs_recursive, from
\* the i-th neighbor on.
dfs_neighbors(g, neighbors, i, visited, result) ==
    IF i > Len(neighbors) THEN [visited |-> visited, result |-> result]
    ELSE LET neighbor == neighbors[i][1]
             r == IF neighbor \notin visited
                  THEN dfs_recursive(g, neighbor, visited, result)
                  ELSE [visited |-> visited, result |-> result]
         IN  dfs_neighbors(g, neighbors, i + 1, r.visited, r.result)

dfs(g, start_vertex) ==
    IF start_vertex \notin g.vertices THEN <<>>
    ELSE dfs_recursive(g, start_vertex, {}, <<>>).result

get_vertices(g) == g.vertices

RECURSIVE SumOfLengths(_, _)
\* "sum(len(neighbors) for neighbors in self.adjacency_list.values())"
SumOfLengths(adjacency, S) ==
    IF S = {} THEN 0
    ELSE LET v == CHOOSE x \in S : TRUE
         IN  Len(adjacency[v]) + SumOfLengths(adjacency, S \ {v})

\* get_graph_info()['edges']
total_edges(g) == SumOfLengths(g.adjacency_list, DOMAIN g.adjacency_list) \div 2

\* heapq.heappop: the smallest (distance, vertex) tuple of the queue.
heappop(pq) ==
    CHOOSE e \in pq : \A f \in pq : e[1] < f[1] \/ (e[1] = f[1] /\ e[2] <= f[2])

RECURSIVE dijkstra_relax_always(_, _, _, _, _)
\* Mutant of dijkstra_relax: the distance of an unvisited neighbour is
\* overwritten without comparing it with the distance already known.
dijkstra_relax_always(st, current_distance, current_vertex, neighbors, i) ==
    IF i > Len(neighbors) THEN st
    ELSE LET neighbor == neighbors[i][1]
             weight   == neighbors[i][2]
             new_distance == current_distance + weight
         IN  IF neighbor \in st.visited
             THEN dijkstra_relax_always(st, current_distance, current_vertex,
                                        neighbors, i + 1)
             ELSE dijkstra_relax_always(
                     [st EXCEPT !.distances[neighbor] = new_distance,
                                !.previous[neighbor] = <<current_vertex>>,
                                !.pq = @ \cup {<<new_distance, neighbor>>}],
                     current_distance, current_vertex, neighbors, i + 1)

RECURSIVE dijkstra_relax(_, _, _, _, _)
\* "for neighbor, weight in self.get_neighbors(current_vertex)", from entry i on.
dijkstra_relax(st, current_distance, current_vertex, neighbors, i) ==
    IF i > Len(neighbors) THEN st
    ELSE LET neighbor == neighbors[i][1]
             weight   == neighbors[i][2]
             new_distance == current_distance + weight
         IN  IF neighbor \in st.visited
             THEN dijkstra_relax(st, current_distance, current_vertex, neighbors, i + 1)
             ELSE IF Less(new_distance, st.distances[neighbor])
             THEN dijkstra_relax(
                     [st EXCEPT !.distances[neighbor] = new_distance,
                                !.previous[neighbor] = <<current_vertex>>,
                                !.pq = @ \cup {<<new_distance, neighbor>>}],
                     current_distance, current_vertex, neighbors, i + 1)
             ELSE dijkstra_relax(st, current_distance, current_vertex, neighbors, i + 1)

RECURSIVE dijkstra_loop(_, _, _)
\* "while pq:"
dijkstra_loop(g, st, end_vertex) ==
    IF st.pq = {} THEN st
    ELSE LET top == heappop(st.pq)
             current_distance == top[1]
             current_vertex   == top[2]
             st1 == [st EXCEPT !.pq = @ \ {top}]
         IN  IF current_vertex \in st1.visited
             THEN dijkstra_loop(g, st1, end_vertex)
             ELSE LET st2 == [st1 EXCEPT !.visited = @ \cup {current_vertex}]
                  IN  IF current_vertex = end_vertex THEN st2
                      ELSE dijkstra_loop(g,
                              dijkstra_relax(st2, current_distance, current_vertex,
                                             get_neighbors(g, current_vertex), 1),
                              end_vertex)

RECURSIVE dijkstra_path(_, _, _)
\* "while current is not None: path.append(current); current = previous[current]":
\* the path collected from the end backwards, already reversed.
dijkstra_path(previous, current, path) ==
    IF current # None
    THEN dijkstra_path(previous, previous[current[1]], <<current[1]>> \o path)
    ELSE path

\* Mutant of dijkstra: the path is reconstructed without testing whether the
\* end vertex was reached.
dijkstra_skips_unreachable_test(g, start_vertex, end_vertex) ==
    IF start_vertex \notin g.vertices \/ end_vertex \notin g.vertices
    THEN [path |-> <<>>, distance |-> inf]
    ELSE LET st0 == [distances |-> [v \in g.vertices |->
                                      IF v = start_vertex THEN 0 ELSE inf],
                     previous  |-> [v \in g.vertices |-> None],
                     pq        |-> {<<0, start_vertex>>},
                     visited   |-> {}]
             st  == dijkstra_loop(g, st0, end_vertex)
         IN  [path |-> dijkstra_path(st.previous, <<end_vertex>>, <<>>),
              distance |-> st.distances[end_vertex]]

\* Returns [path, distance].
dijkstra(g, start_vertex, end_vertex) ==
    IF start_vertex \notin g.vertices \/ end_vertex \notin g.vertices
    THEN [path |-> <<>>, distance |-> inf]
    ELSE LET st0 == [distances |-> [v \in g.vertices |->
                                      IF v = start_vertex THEN 0 ELSE inf],
                     previous  |-> [v \in g.vertices |-> None],
                     pq        |-> {<<0, start_vertex>>},
                     visited   |-> {}]
             st  == dijkstra_loop(g, st0, end_vertex)
         IN  IF st.distances[end_vertex] = inf
             THEN [path |-> <<>>, distance |-> inf]
             ELSE [path |-> dijkstra_path(st.previous, <<end_vertex>>, <<>>),
                   distance |-> st.distances[end_vertex]]

\* "neighbor not in path"
InPath(vertex, path) == \E i \in 1..Len(path) : path[i] = vertex

RECURSIVE find_all_paths_expand_revisits_start(_, _, _, _)
\* Mutant of find_all_paths_expand: the cycle test ignores the first vertex
\* of the partial path.
find_all_paths_expand_revisits_start(queue, entry, neighbors, i) ==
    IF i > Len(neighbors) THEN queue
    ELSE LET neighbor == neighbors[i][1]
             weight   == neighbors[i][2]
         IN  IF ~InPath(neighbor, Tail(entry.path))
             THEN find_all_paths_expand_revisits_start(
                     Append(queue, [vertex   |-> neighbor,
                                    path     |-> Append(entry.path, neighbor),
                                    distance |-> entry.distance + weight]),
                     entry, neighbors, i + 1)
             ELSE find_all_paths_expand_revisits_start(queue, entry, neighbors, i + 1)

RECURSIVE find_all_paths_expand(_, _, _, _)
\* "for neighbor, weight in self.get_neighbors(current)", from entry i on:
\* the queue with the extensions of the partial path appended.
find_all_paths_expand(queue, entry, neighbors, i) ==
    IF i > Len(neighbors) THEN queue
    ELSE LET neighbor == neighbors[i][1]
             weight   == neighbors[i][2]
         IN  IF ~InPath(neighbor, entry.path)
             THEN find_all_paths_expand(
                     Append(queue, [vertex   |-> neighbor,
                                    path     |-> Append(entry.path, neighbor),
                                    distance |-> entry.distance + weight]),
                     entry, neighbors, i + 1)
             ELSE find_all_paths_expand(queue, entry, neighbors, i + 1)

RECURSIVE find_all_paths_loop_stops_early(_, _, _, _, _)
\* Mutant of find_all_paths_loop: the loop ends one recorded path short of
\* max_paths.
find_all_paths_loop_stops_early(g, queue, paths, end_vertex, max_paths) ==
    IF queue = <<>> \/ ~(Len(paths) < max_paths - 1) THEN paths
    ELSE LET entry == Head(queue)
         IN  IF entry.vertex = end_vertex
             THEN find_all_paths_loop_stops_early(g, Tail(queue),
                     Append(paths, [path |-> entry.path, distance |-> entry.distance]),
                     end_vertex, max_paths)
             ELSE find_all_paths_loop_stops_early(g,
                     find_all_paths_expand(Tail(queue), entry,
                                           get_neighbors(g, entry.vertex), 1),
                     paths, end_vertex, max_paths)

RECURSIVE find_all_paths_loop(_, _, _, _, _)
\* "while queue and len(paths) < max_paths:"
find_all_paths_loop(g, queue, paths, end_vertex, max_paths) ==
    IF queue = <<>> \/ ~(Len(paths) < max_paths) THEN paths
    ELSE LET entry == Head(queue)
         IN  IF entry.vertex = end_vertex
             THEN find_all_paths_loop(g, Tail(queue),
                     Append(paths, [path |-> entry.path, distance |-> entry.distance]),
                     end_vertex, max_paths)
             ELSE find_all_paths_loop(g,
                     find_all_paths_expand(Tail(queue), entry,
                                           get_neighbors(g, entry.vertex), 1),
                     paths, end_vertex, max_paths)

\* Mutant of find_all_paths_step: a partial path that cannot be extended is
\* put back at the end of the queue.
find_all_paths_step_keeps_dead_ends(g, queue, paths, end_vertex) ==
    LET entry == Head(queue)
        more  == find_all_paths_expand(Tail(queue), entry,
                                       get_neighbors(g, entry.vertex), 1)
    IN  IF entry.vertex = end_vertex
        THEN [queue |-> Tail(queue),
              paths |-> Append(paths, [path |-> entry.path, distance |-> entry.distance])]
        ELSE [queue |-> IF more = Tail(queue) THEN Append(more, entry) ELSE more,
              paths |-> paths]

\* One iteration of "while queue and len(paths) < max_paths:": the queue
\* and the paths after it.
find_all_paths_step(g, queue, paths, end_vertex) ==
    LET entry == Head(queue)
    IN  IF entry.vertex = end_vertex
        THEN [queue |-> Tail(queue),
              paths |-> Append(paths, [path |-> entry.path, distance |-> entry.distance])]
        ELSE [queue |-> find_all_paths_expand(Tail(queue), entry,
                                              get_neighbors(g, entry.vertex), 1),
              paths |-> paths]

\* Mutant of sort_by_distance: the recorded order is kept.
sort_by_distance_skipped(paths) == paths

\* "paths.sort(key=lambda x: x[1])": ascending by distance, entries of equal
\* distance keeping their recorded order.  Entry i of paths goes to the
\* place after the entries of smaller distance and the earlier entries of
\* the same distance.
sort_by_distance(paths) ==
    LET n == Len(paths)
        place(i) == 1 + Cardinality({j \in 1..n :
                          \/ paths[j].distance < paths[i].distance
                          \/ paths[j].distance = paths[i].distance /\ j < i})
    IN  [p \in 1..n |-> paths[CHOOSE i \in 1..n : place(i) = p]]

\* Returns the sequence of [path, distance] entries.
find_all_paths(g, start_vertex, end_vertex, max_paths) ==
    IF start_vertex \notin g.vertices \/ end_vertex \notin g.vertices THEN <<>>
    ELSE IF start_vertex = end_vertex
    THEN <<[path |-> <<start_vertex>>, distance |-> 0]>>
    ELSE sort_by_distance(
            find_all_paths_loop(g,
                <<[vertex |-> start_vertex, path |-> <<start_vertex>>, distance |-> 0]>>,
                <<>>, end_vertex, max_paths))

\* "max_paths: int = 10"
DefaultMaxPaths == 10

(***************************************************************************)
(* The Graph as a state machine: vertices and edges are added one call at  *)
(* a time, or a whole route list is loaded into the empty graph as the     *)
(* campus navigator does.                                                  *)
(***************************************************************************)
TheGraph == [vertices |-> vertices, adjacency_list |-> adjacency_list]

Vertices == 1..NumVertices
Weights  == 0..MaxWeight
\* max_paths arguments of the calls examined.
PathLimits == {1, MaxPaths, DefaultMaxPaths}

EdgeCount == LET RECURSIVE Total(_)
                 Total(S) == IF S = {} THEN 0
                             ELSE LET v == CHOOSE x \in S : TRUE
                                  IN  Len(adjacency_list[v]) + Total(S \ {v})
             IN  Total(DOMAIN adjacency_list) \div 2

GraphBecomes(g) ==
    /\ vertices' = g.vertices
    /\ adjacency_list' = g.adjacency_list

AddVertex == \E vertex \in Vertices : GraphBecomes(add_vertex(TheGraph, vertex))

AddEdge == \E from_vertex \in Vertices, to_vertex \in Vertices, weight \in Weights :
    /\ EdgeCount < MaxEdges
    /\ GraphBecomes(add_edge(TheGraph, from_vertex, to_vertex, weight))

\* A campus data file with four buildings: the cycle A-B-C-D-A of unit routes
\* and the direct route A-C of length 5 (A, B, C, D numbered 1..4).
CampusBuildings == <<1, 2, 3, 4>>
CampusRoutes == << <<1, 2, 1>>, <<2, 3, 1>>, <<3, 4, 1>>, <<4, 1, 1>>, <<1, 3, 5>> >>

\* The default campus of load_default_data.  Buildings in the order of their
\* names: 1 Admin Block, 2 Auditorium, 3 CS Department, 4 Cafeteria, 5 Hostel,
\* 6 Library, 7 Parking, 8 Sports Complex.
DefaultBuildings == <<3, 6, 4, 2, 7, 1, 8, 5>>
DefaultRoutes ==
    << <<3, 6, 150>>, <<3, 4, 200>>, <<6, 4, 100>>, <<6, 2, 300>>,
       <<4, 2, 250>>, <<4, 7, 180>>, <<2, 1, 120>>, <<7, 1, 200>>,
       <<1, 8, 400>>, <<8, 5, 350>>, <<5, 3, 500>>, <<5, 6, 450>> >>

RECURSIVE add_buildings(_, _, _)
\* "for building in self.buildings.keys(): self.graph.add_vertex(building)"
add_buildings(g, buildings, i) ==
    IF i > Len(buildings) THEN g
    ELSE add_buildings(add_vertex(g, buildings[i]), buildings, i + 1)

RECURSIVE add_routes(_, _, _)
\* "for route in routes: self.graph.add_edge(from, to, distance)"
add_routes(g, routes, i) ==
    IF i > Len(routes) THEN g
    ELSE add_routes(add_edge(g, routes[i][1], routes[i][2], routes[i][3]), routes, i + 1)

load_campus_data(g, buildings, routes) ==
    add_routes(add_buildings(g, buildings, 1), routes, 1)

LoadCampus ==
    /\ vertices = {}
    /\ GraphBecomes(load_campus_data(TheGraph, CampusBuildings, CampusRoutes))

load_default_data(g) == add_routes(add_buildings(g, DefaultBuildings, 1), DefaultRoutes, 1)

LoadDefault ==
    /\ vertices = {}
    /\ GraphBecomes(load_default_data(TheGraph))

InitGraph ==
    /\ vertices = Graph.vertices
    /\ adjacency_list = Graph.adjacency_list

(***************************************************************************)
(* The DoublyLinkedList as a state machine.  list_last records the last    *)
(* call: its name, arguments, return value and the list before it.         *)
(***************************************************************************)
ListCall(name, position, data, r) ==
    /\ linked_list' = r.list
    /\ list_last' = [op |-> name, position |-> position, data |-> data,
                     ret |-> r.ret, pre |-> linked_list]

\* Positions a caller may pass: every valid one, and one beyond either end.
ListPositions == -1..(DLL_get_size(linked_list) + 1)

InsertAtBeginning == \E data \in Events :
    /\ DLL_get_size(linked_list) < MaxLen
    /\ ListCall("insert_at_beginning", None, data,
                [list |-> DLL_insert_at_beginning(linked_list, data), ret |-> None])

InsertAtEnd == \E data \in Events :
    /\ DLL_get_size(linked_list) < MaxLen
    /\ ListCall("insert_at_end", None, data,
                [list |-> DLL_insert_at_end(linked_list, data), ret |-> None])

InsertAtPosition == \E data \in Events, position \in ListPositions :
    /\ DLL_get_size(linked_list) < MaxLen
    /\ ListCall("insert_at_position", position, data,
                DLL_insert_at_position(linked_list, data, position))

DeleteFromBeginning ==
    ListCall("delete_from_beginning", None, None, DLL_delete_from_beginning(linked_list))

DeleteFromEnd ==
    ListCall("delete_from_end", None, None, DLL_delete_from_end(linked_list))

DeleteAtPosition == \E position \in ListPositions :
    ListCall("delete_at_position", position, None,
             DLL_delete_at_position(linked_list, position))

DeleteByValue == \E value \in Events :
    ListCall("delete_by_value", None, value, DLL_delete_by_value(linked_list, value))

GetAtPosition == \E position \in ListPositions :
    ListCall("get_at_position", position, None,
             [list |-> linked_list, ret |-> DLL_get_at_position(linked_list, position)])

UpdateAtPosition == \E position \in ListPositions, new_data \in Events :
    ListCall("update_at_position", position, new_data,
             DLL_update_at_position(linked_list, position, new_data))

ListClear == ListCall("clear", None, None, [list |-> DLL_clear(linked_list), ret |-> None])

InitList ==
    /\ linked_list = DoublyLinkedList
    /\ list_last = [op |-> "init", position |-> None, data |-> None, ret |-> None,
                    pre |-> DoublyLinkedList]

(***************************************************************************)
(* The Stack as a state machine, constructed without a maximum size.       *)
(* Every push hands over a new object, so that the objects are told apart  *)
(* by the order in which they were pushed.  stack_last records the last    *)
(* call: its name, argument, return value and the stack before it.         *)
(***************************************************************************)
\* "item: Any": the id-th object handed to a container.
Object(id) == [id |-> id]

StackCall(name, arg, r) ==
    /\ stack' = r.stack
    /\ stack_last' = [op |-> name, arg |-> arg, ret |-> r.ret, pre |-> stack]

\* max_size arguments: None and the integers 0..MaxSize.
MaxSizes == {None} \cup {<<n>> : n \in 0..MaxSize}

Push ==
    /\ Stack_size(stack) < MaxItems
    /\ pushed < MaxObjects
    /\ StackCall("push", Object(pushed + 1), Stack_push(stack, Object(pushed + 1)))
    /\ pushed' = pushed + 1

Pop == StackCall("pop", None, Stack_pop(stack)) /\ UNCHANGED pushed

StackClear ==
    /\ StackCall("clear", None, [stack |-> Stack_clear(stack), ret |-> None])
    /\ UNCHANGED pushed

SetMaxSize == \E max_size \in MaxSizes :
    /\ StackCall("set_max_size", max_size,
                 [stack |-> Stack_set_max_size(stack, max_size), ret |-> None])
    /\ UNCHANGED pushed

ToList == StackCall("to_list", None, Stack_to_list(stack)) /\ UNCHANGED pushed

\* The caller appends an item to the list that to_list returned; that list
\* is a copy, so self.items stays as it is.
ModifyReturnedList ==
    /\ stack_last.op = "to_list"
    /\ StackCall("modify", None, [stack |-> stack, ret |-> Append(stack_last.ret, Object(0))])
    /\ UNCHANGED pushed

InitStack ==
    /\ stack = Stack(None)
    /\ stack_last = [op |-> "init", arg |-> None, ret |-> None, pre |-> Stack(None)]
    /\ pushed = 0

(***************************************************************************)
(* The Queue as a state machine, constructed without a maximum size, with  *)
(* a new object handed over by every enqueue.  queue_last records the last *)
(* call: its name, argument, return value, the exception it raised (None   *)
(* when it returned) and the queue before it.                              *)
(***************************************************************************)
QueueCall(name, arg, r, raised) ==
    /\ the_queue' = r.queue
    /\ queue_last' = [op |-> name, arg |-> arg, ret |-> r.ret, raised |-> raised,
                      pre |-> the_queue]

Enqueue ==
    /\ Queue_size(the_queue) < MaxItems
    /\ enqueued < MaxObjects
    /\ QueueCall("enqueue", Object(enqueued + 1),
                 Queue_enqueue(the_queue, Object(enqueued + 1)), None)
    /\ enqueued' = enqueued + 1

Dequeue == QueueCall("dequeue", None, Queue_dequeue(the_queue), None) /\ UNCHANGED enqueued

\* remove is passed any object enqueued so far or one that never was.
Remove == \E id \in 1..(enqueued + 1) :
    /\ QueueCall("remove", Object(id), Queue_remove(the_queue, Object(id)), None)
    /\ UNCHANGED enqueued

QueueClear ==
    /\ QueueCall("clear", None, [queue |-> Queue_clear(the_queue), ret |-> None], None)
    /\ UNCHANGED enqueued

QueueSetMaxSize == \E max_size \in MaxSizes :
    LET r == Queue_set_max_size(the_queue, max_size)
    IN  /\ QueueCall("set_max_size", max_size, r, r.raised)
        /\ UNCHANGED enqueued

\* Negative max_size arguments.
NegativeSizes == {<<-n>> : n \in 1..MaxSize}

QueueSetNegativeMaxSize == \E max_size \in NegativeSizes :
    LET r == Queue_set_max_size(the_queue, max_size)
    IN  /\ QueueCall("set_max_size", max_size, r, r.raised)
        /\ UNCHANGED enqueued

InitQueue ==
    /\ the_queue = Queue(None)
    /\ queue_last = [op |-> "init", arg |-> None, ret |-> None, raised |-> None,
                     pre |-> Queue(None)]
    /\ enqueued = 0

(***************************************************************************)
(* The Graph built call by call, with a log of the calls made: the set V   *)
(* of vertices passed to add_vertex, the number E of add_edge calls and    *)
(* the set of their endpoints.                                             *)
(***************************************************************************)
LoggedAddVertex == \E vertex \in Vertices :
    /\ GraphBecomes(add_vertex(TheGraph, vertex))
    /\ calls_made' = [calls_made EXCEPT !.V = @ \cup {vertex}]

LoggedAddEdge == \E from_vertex \in Vertices, to_vertex \in Vertices, weight \in Weights :
    /\ calls_made.E < MaxEdges
    /\ GraphBecomes(add_edge(TheGraph, from_vertex, to_vertex, weight))
    /\ calls_made' = [calls_made EXCEPT !.E = @ + 1,
                                        !.endpoints = @ \cup {from_vertex, to_vertex}]

InitCalls == calls_made = [V |-> {}, E |-> 0, endpoints |-> {}]

(***************************************************************************)
(* The start of the CLI  (src/CLI.py, CampusConnectCLI.__init__): the      *)
(* CampusNavigator is constructed, then the EventsManager.  startup.file   *)
(* is the list of records in data/events.json, phase tells how far the     *)
(* construction has come and raised is the exception that ended it (None   *)
(* while there is none).                                                   *)
(***************************************************************************)
\* The methods that class EventsManager defines.
EventsManagerMethods ==
    {"__init__", "add_event", "delete_event", "edit_event", "undo", "redo",
     "get_all_events", "get_event_count", "search_events", "display_events",
     "run_events_menu", "add_event_menu", "search_events_menu", "edit_event_menu",
     "edit_specific_event", "delete_event_menu", "undo_action", "redo_action"}

\* "self.name()": the call is made when the class defines the method and
\* raises AttributeError when it does not.
CallMethod(name) == IF name \in EventsManagerMethods THEN None ELSE <<"AttributeError">>

\* EventsManager(): the three containers are constructed, then
\* "self.load_events_from_file()" is called.  The manager is the object
\* built when the call returns and None when it raises.
EventsManager___init__(file) ==
    LET raised == CallMethod("load_events_from_file")
    IN  [manager |-> IF raised = None THEN EventsManager ELSE None,
         raised  |-> raised]

\* A record is in data/events.json before the program starts.
StoreRecord == \E event \in Events :
    /\ startup.phase = "off"
    /\ Len(startup.file) < MaxStored
    /\ startup' = [startup EXCEPT !.file = Append(@, event)]
    /\ UNCHANGED <<graph_vars, events_vars>>

\* "self.navigator = CampusNavigator()": the graph is loaded from the
\* campus data file or, without it, from the default data.
ConstructNavigator ==
    /\ startup.phase = "off"
    /\ LoadCampus \/ LoadDefault
    /\ startup' = [startup EXCEPT !.phase = "navigator"]
    /\ UNCHANGED events_vars

\* "self.events_manager = EventsManager()"
ConstructEventsManager ==
    /\ startup.phase = "navigator"
    /\ LET r == EventsManager___init__(startup.file)
       IN  /\ startup' = [startup EXCEPT
                             !.phase = IF r.raised = None THEN "manager" ELSE "failed",
                             !.raised = r.raised]
           /\ IF r.raised = None
              THEN /\ events_list' = r.manager.events_list
                   /\ undo_stack' = r.manager.undo_stack
                   /\ redo_stack' = r.manager.redo_stack
                   /\ UNCHANGED hist
              ELSE UNCHANGED events_vars
    /\ UNCHANGED graph_vars

InitStartup == startup = [file |-> <<>>, phase |-> "off", raised |-> None]

(***************************************************************************)
(* EventSearchTree  (src/event_search_tree.py)                             *)
(* A title is a word in upper or lower case; words are numbered in         *)
(* alphabetical order and dates in calendar order, so that the search key  *)
(* lower(title) + "_" + date is ordered as the number                      *)
(* word * KeyBase + date.  An event id "EVT_nnnn" is its number nnnn.      *)
(***************************************************************************)
KeyBase == 10

Title(word, caps) == [word |-> word, caps |-> caps]

\* str.lower()
lower(title) == [title EXCEPT !.caps = FALSE]

EventNode(event_id, title, date, category) ==
    [event_id |-> event_id, title |-> title, date |-> date, category |-> category]

get_search_key(event) == lower(event.title).word * KeyBase + event.date

\* generate_event_id, then "if self.bst.insert(search_key, event):
\* self.categories.add(category); return True" and "return False".
EST_add_event(t, title, date, category) ==
    LET event_id   == t.event_counter + 1
        event      == EventNode(event_id, title, date, category)
        search_key == get_search_key(event)
        r          == BST_insert(t.bst, search_key, event)
    IN  [bst |-> [root |-> r.root, size |-> r.size],
         event_counter |-> event_id,
         categories |-> IF r.ret THEN t.categories \cup {category} ELSE t.categories,
         ret |-> r.ret]

\* "for key, event in all_events: if event.event_id == event_id:
\* return self.bst.delete(key)" and "return False".
EST_delete_event(t, event_id) ==
    LET all_events == BST_inorder_traversal(t.bst)
        found      == {i \in 1..Len(all_events) : all_events[i][2].event_id = event_id}
    IN  IF found = {}
        THEN [bst |-> t.bst, event_counter |-> t.event_counter,
              categories |-> t.categories, ret |-> FALSE]
        ELSE LET i == CHOOSE i \in found : \A j \in found : i <= j
                 r == BST_delete(t.bst, all_events[i][1])
             IN  [bst |-> [root |-> r.root, size |-> r.size],
                  event_counter |-> t.event_counter,
                  categories |-> t.categories, ret |-> r.ret]

\* sample_events of load_sample_events: (title, date, category), the words
\* numbered 1 "cultural event", 3 "group meeting", 4 "library visit",
\* 5 "mid exam", 6 "presentation", 7 "sports day", 8 "viva", 9 "workshop"
\* and the dates 1 "2024-01-12" to 8 "2024-02-05".
sample_events ==
    << <<Title(5, TRUE), 2, "Academic">>, <<Title(8, TRUE), 4, "Academic">>,
       <<Title(6, TRUE), 5, "Academic">>, <<Title(7, TRUE), 7, "Event">>,
       <<Title(4, TRUE), 1, "Study">>,    <<Title(3, TRUE), 3, "Meeting">>,
       <<Title(9, TRUE), 6, "Workshop">>, <<Title(1, TRUE), 8, "Event">> >>

WithoutRet(r) == [bst |-> r.bst, event_counter |-> r.event_counter,
                  categories |-> r.categories]

RECURSIVE load_sample_events(_, _)
\* "for ... in sample_events: self.add_event(...)", from entry i on.
load_sample_events(t, i) ==
    IF i > Len(sample_events) THEN t
    ELSE load_sample_events(
            WithoutRet(EST_add_event(t, sample_events[i][1], sample_events[i][2],
                                 sample_events[i][3])), i + 1)

\* EventSearchTree(): the empty tree with the sample events loaded.
EventSearchTree ==
    load_sample_events([bst |-> [root |-> None, size |-> 0], event_counter |-> 0,
                        categories |-> {}], 1)

\* The titles, dates and categories a caller passes: "Viva" and "viva" of
\* the sample event, the new word 2 "gala"; the date of the sample "Viva"
\* and a later one; a category of the samples and a new one.
NewTitles     == {Title(8, TRUE), Title(8, FALSE), Title(2, TRUE)}
NewDates      == {4, 9}
NewCategories == {"Academic", "Party"}

TreeCall(name, event, r) ==
    /\ tree_last.calls < MaxCalls
    /\ event_tree' = WithoutRet(r)
    /\ tree_last' = [op |-> name, event |-> event, ret |-> r.ret, pre |-> event_tree,
                     calls |-> tree_last.calls + 1]

SearchTreeAddEvent == \E title \in NewTitles, date \in NewDates, category \in NewCategories :
    TreeCall("add_event",
             EventNode(event_tree.event_counter + 1, title, date, category),
             EST_add_event(event_tree, title, date, category))

SearchTreeDeleteEvent == \E event_id \in 1..(event_tree.event_counter + 1) :
    TreeCall("delete_event", None, EST_delete_event(event_tree, event_id))

InitTree ==
    /\ event_tree = EventSearchTree
    /\ tree_last = [op |-> "init", event |-> None, ret |-> None, pre |-> None,
                    calls |-> 0]

(***************************************************************************)
(* A find_all_paths call followed iteration by iteration on a graph built  *)
(* by load_campus_data and add_edge calls.  search holds the call's        *)
(* arguments and locals; running is TRUE from the call to its return, and  *)
(* result is the list returned.                                            *)
(***************************************************************************)
SearchCaps == {-1, 1, DefaultMaxPaths}

Idle == [running |-> FALSE, start_vertex |-> 0, end_vertex |-> 0, max_paths |-> 0,
         queue |-> <<>>, paths |-> <<>>, result |-> <<>>]

\* add_edge between any two vertices, the same or different, before the
\* first find_all_paths call.
SearchAddEdge == \E from_vertex \in Vertices, to_vertex \in Vertices :
    /\ search = Idle
    /\ calls_made.E < MaxRoutes
    /\ GraphBecomes(add_edge(TheGraph, from_vertex, to_vertex, 1))
    /\ calls_made' = [calls_made EXCEPT !.E = @ + 1,
                                        !.endpoints = @ \cup {from_vertex, to_vertex}]
    /\ UNCHANGED search

SearchLoadCampus ==
    /\ search = Idle
    /\ LoadCampus
    /\ UNCHANGED <<calls_made, search>>

\* find_all_paths(start_vertex, end_vertex, max_paths) is called on the
\* graph built: it returns at once for an unknown or equal pair and enters
\* its loop otherwise.  The call leaves the graph as it is, so one call is
\* followed.
SearchCall == \E start_vertex \in (vertices \cup {0}), end_vertex \in vertices \cup {0},
                 max_paths \in SearchCaps :
    /\ search = Idle
    /\ search' =
          IF start_vertex \notin vertices \/ end_vertex \notin vertices
             \/ start_vertex = end_vertex
          THEN [Idle EXCEPT !.start_vertex = start_vertex, !.end_vertex = end_vertex,
                            !.max_paths = max_paths,
                            !.result = find_all_paths(TheGraph, start_vertex,
                                                      end_vertex, max_paths)]
          ELSE [running |-> TRUE, start_vertex |-> start_vertex,
                end_vertex |-> end_vertex, max_paths |-> max_paths,
                queue |-> <<[vertex |-> start_vertex, path |-> <<start_vertex>>,
                             distance |-> 0]>>,
                paths |-> <<>>, result |-> <<>>]
    /\ UNCHANGED <<graph_vars, calls_made>>

SearchStep ==
    /\ search.running
    /\ search.queue # <<>> /\ Len(search.paths) < search.max_paths
    /\ \E r \in {find_all_paths_step(TheGraph, search.queue, search.paths,
                                      search.end_vertex)} :
          search' = [search EXCEPT !.queue = r.queue, !.paths = r.paths]
    /\ UNCHANGED <<graph_vars, calls_made>>

\* The loop is left: "paths.sort(...); return paths".
SearchReturn ==
    /\ search.running
    /\ ~(search.queue # <<>> /\ Len(search.paths) < search.max_paths)
    /\ \E paths \in {sort_by_distance(search.paths)} :
          search' = [search EXCEPT !.running = FALSE, !.queue = <<>>, !.paths = <<>>,
                                  !.result = paths]
    /\ UNCHANGED <<graph_vars, calls_made>>

InitSearch == search = Idle

(***************************************************************************)
(* The TaskScheduler as a state machine, from its construction on.         *)
(* tasks_log records the identities of the tasks added, in order, and of   *)
(* the tasks complete_next_task returned, in order.                        *)
(***************************************************************************)
Scheduler ==
    [task_queue |-> task_queue, completed_tasks |-> completed_tasks,
     total_tasks_created |-> total_tasks_created,
     total_tasks_completed |-> total_tasks_completed]

SchedulerBecomes(sch) ==
    /\ task_queue' = sch.task_queue
    /\ completed_tasks' = sch.completed_tasks
    /\ total_tasks_created' = sch.total_tasks_created
    /\ total_tasks_completed' = sch.total_tasks_completed

\* Every add_task call is passed a new Task object.
AddTask ==
    /\ Len(tasks_log.added) < SampleTasks + MaxTasks
    /\ LET task == Task(Len(tasks_log.added) + 1)
           r    == add_task(Scheduler, task)
       IN  /\ SchedulerBecomes(r.sch)
           /\ tasks_log' = [tasks_log EXCEPT !.added = Append(@, task.id)]

CompleteNextTask ==
    LET r == complete_next_task(Scheduler)
    IN  /\ SchedulerBecomes(r.sch)
        /\ tasks_log' = IF r.ret = None THEN tasks_log
                        ELSE [tasks_log EXCEPT !.returned = Append(@, r.ret.id)]

ClearCompletedTasks ==
    /\ SchedulerBecomes(clear_completed_tasks(Scheduler))
    /\ UNCHANGED tasks_log

InitScheduler ==
    /\ task_queue = TaskScheduler.task_queue
    /\ completed_tasks = TaskScheduler.completed_tasks
    /\ total_tasks_created = TaskScheduler.total_tasks_created
    /\ total_tasks_completed = TaskScheduler.total_tasks_completed
    /\ tasks_log = [added |-> [i \in 1..SampleTasks |-> i], returned |-> <<>>]

(***************************************************************************)
(* Specifications.  Each takes the steps of one component and leaves the   *)
(* other components as constructed.                                        *)
(***************************************************************************)
Init ==
    /\ InitBST /\ InitGraph /\ InitCalls /\ InitEvents /\ InitList /\ InitStack
    /\ InitQueue /\ InitScheduler /\ InitSearch /\ InitTree
    /\ InitStartup

BstInsert == Insert /\ UNCHANGED NotBst
BstDelete == Delete /\ UNCHANGED NotBst
BstClear  == Clear /\ UNCHANGED NotBst

NextBST == BstInsert \/ BstDelete \/ BstClear

SpecBST == Init /\ [][NextBST]_vars

BstInsertKey == InsertKey /\ UNCHANGED NotBst

NextBSTShape == BstInsertKey \/ BstDelete \/ BstClear

\* The tree with one value for all keys: every shape of tree, once.
SpecBSTShape == Init /\ [][NextBSTShape]_vars

EmAddEvent    == AddEvent /\ UNCHANGED NotEvents
EmDeleteEvent == DeleteEvent /\ UNCHANGED NotEvents
EmEditEvent   == EditEvent /\ UNCHANGED NotEvents
EmUndo        == Undo /\ UNCHANGED NotEvents
EmRedo        == Redo /\ UNCHANGED NotEvents

NextEvents == EmAddEvent \/ EmDeleteEvent \/ EmEditEvent \/ EmUndo \/ EmRedo

GraphAddVertex  == AddVertex /\ UNCHANGED NotGraph
GraphAddEdge    == AddEdge /\ UNCHANGED NotGraph
GraphLoadCampus  == LoadCampus /\ UNCHANGED NotGraph
GraphLoadDefault == LoadDefault /\ UNCHANGED NotGraph

NextGraph == GraphAddVertex \/ GraphAddEdge \/ GraphLoadCampus \/ GraphLoadDefault

SpecGraph == Init /\ [][NextGraph]_vars

ListInsertAtBeginning ==
    InsertAtBeginning /\ UNCHANGED NotList
ListInsertAtEnd ==
    InsertAtEnd /\ UNCHANGED NotList
ListInsertAtPosition ==
    InsertAtPosition /\ UNCHANGED NotList
ListDeleteFromBeginning ==
    DeleteFromBeginning /\ UNCHANGED NotList
ListDeleteFromEnd ==
    DeleteFromEnd /\ UNCHANGED NotList
ListDeleteAtPosition ==
    DeleteAtPosition /\ UNCHANGED NotList
ListDeleteByValue ==
    DeleteByValue /\ UNCHANGED NotList
ListGetAtPosition ==
    GetAtPosition /\ UNCHANGED NotList
ListUpdateAtPosition ==
    UpdateAtPosition /\ UNCHANGED NotList
ListClearAll ==
    ListClear /\ UNCHANGED NotList

NextList ==
    \/ ListInsertAtBeginning \/ ListInsertAtEnd \/ ListInsertAtPosition
    \/ ListDeleteFromBeginning \/ ListDeleteFromEnd \/ ListDeleteAtPosition
    \/ ListDeleteByValue \/ ListGetAtPosition \/ ListUpdateAtPosition
    \/ ListClearAll

SpecList == Init /\ [][NextList]_vars

StackPushItem    == Push /\ UNCHANGED NotStack
StackPopItem     == Pop /\ UNCHANGED NotStack
StackClearAll    == StackClear /\ UNCHANGED NotStack
StackSetMaxSize  == SetMaxSize /\ UNCHANGED NotStack

StackToList      == ToList /\ UNCHANGED NotStack
StackModifyList  == ModifyReturnedList /\ UNCHANGED NotStack

NextStack == StackPushItem \/ StackPopItem \/ StackClearAll \/ StackSetMaxSize

SpecStack == Init /\ [][NextStack]_vars

NextStackList == NextStack \/ StackToList \/ StackModifyList

\* The Stack with to_list among its calls.
SpecStackList == Init /\ [][NextStackList]_vars

QueueEnqueue     == Enqueue /\ UNCHANGED NotQueue
QueueDequeue     == Dequeue /\ UNCHANGED NotQueue
QueueRemove      == Remove /\ UNCHANGED NotQueue
QueueClearAll    == QueueClear /\ UNCHANGED NotQueue
QueueResize      == QueueSetMaxSize /\ UNCHANGED NotQueue
QueueResizeBelowZero == QueueSetNegativeMaxSize /\ UNCHANGED NotQueue

NextQueue == QueueEnqueue \/ QueueDequeue \/ QueueRemove \/ QueueClearAll \/ QueueResize

\* The queue with max_size arguments that are None or at least 0.
SpecQueue == Init /\ [][NextQueue]_vars

\* The queue with any integer max_size argument.
SpecQueueAnySize == Init /\ [][NextQueue \/ QueueResizeBelowZero]_vars

\* The stack or the queue is used, the other staying as constructed.
QueueUnused == queue_last.op = "init"
StackUnused == stack_last.op = "init"

ContainersPush    == QueueUnused /\ StackPushItem
ContainersPop     == QueueUnused /\ StackPopItem
ContainersStackClear  == QueueUnused /\ StackClearAll
ContainersStackResize == QueueUnused /\ StackSetMaxSize
ContainersEnqueue == StackUnused /\ QueueEnqueue
ContainersDequeue == StackUnused /\ QueueDequeue
ContainersRemove  == StackUnused /\ QueueRemove
ContainersQueueClear  == StackUnused /\ QueueClearAll
ContainersQueueResize == StackUnused /\ QueueResize

NextContainers ==
    \/ ContainersPush \/ ContainersPop \/ ContainersStackClear \/ ContainersStackResize
    \/ ContainersEnqueue \/ ContainersDequeue \/ ContainersRemove
    \/ ContainersQueueClear \/ ContainersQueueResize

SpecContainers == Init /\ [][NextContainers]_vars

SchedAddTask          == AddTask /\ UNCHANGED NotSched
SchedCompleteNextTask == CompleteNextTask /\ UNCHANGED NotSched
SchedClearCompleted   == ClearCompletedTasks /\ UNCHANGED NotSched

NextScheduler == SchedAddTask \/ SchedCompleteNextTask \/ SchedClearCompleted

SpecScheduler == Init /\ [][NextScheduler]_vars

BuildAddVertex == LoggedAddVertex /\ UNCHANGED NotBuild
BuildAddEdge   == LoggedAddEdge /\ UNCHANGED NotBuild

NextGraphBuild == BuildAddVertex \/ BuildAddEdge

\* The graph built by add_vertex and add_edge calls that are logged.
SpecGraphBuild == Init /\ [][NextGraphBuild]_vars

PathsAddEdge    == SearchAddEdge /\ UNCHANGED NotSearch
PathsLoadCampus == SearchLoadCampus /\ UNCHANGED NotSearch
PathsCall       == SearchCall /\ UNCHANGED NotSearch
PathsStep       == SearchStep /\ UNCHANGED NotSearch
PathsReturn     == SearchReturn /\ UNCHANGED NotSearch

NextPaths == PathsAddEdge \/ PathsLoadCampus \/ PathsCall \/ PathsStep \/ PathsReturn

\* find_all_paths followed step by step; a call that has begun goes on
\* executing until it returns.
SpecPaths == Init /\ [][NextPaths]_vars /\ WF_vars(PathsStep \/ PathsReturn)

TreeAddEvent    == SearchTreeAddEvent /\ UNCHANGED NotTree
TreeDeleteEvent == SearchTreeDeleteEvent /\ UNCHANGED NotTree

NextTree == TreeAddEvent \/ TreeDeleteEvent

\* The EventSearchTree from construction on.
SpecTree == Init /\ [][NextTree]_vars

StartupStoreRecord   == StoreRecord /\ UNCHANGED NotStartup
StartupNavigator     == ConstructNavigator /\ UNCHANGED NotStartup
StartupEventsManager == ConstructEventsManager /\ UNCHANGED NotStartup

NextStartup == StartupStoreRecord \/ StartupNavigator \/ StartupEventsManager

\* The CLI's construction, with any records stored beforehand.
SpecStartup == Init /\ [][NextStartup]_vars

\* The manager from construction on.
SpecEvents == Init /\ [][NextEvents]_vars

InitSession ==
    /\ InitBST /\ InitGraph /\ InitCalls /\ InitEventsSession /\ InitList /\ InitStack
    /\ InitQueue /\ InitScheduler /\ InitSearch /\ InitTree
    /\ InitStartup

\* The manager from construction on, or from late in a session on.
SpecEventsSession == InitSession /\ [][NextEvents]_vars


(***************************************************************************)
(* Properties of the BinarySearchTree, checked under SpecBST.              *)
(***************************************************************************)
RECURSIVE TreeKeys(_)
TreeKeys(node) ==
    IF node = None THEN {}
    ELSE {node.key} \cup TreeKeys(node.left) \cup TreeKeys(node.right)

RECURSIVE NodeCount(_)
NodeCount(node) ==
    IF node = None THEN 0 ELSE 1 + NodeCount(node.left) + NodeCount(node.right)

RECURSIVE SearchTreeOrdered(_)
SearchTreeOrdered(node) ==
    \/ node = None
    \/ /\ \A k \in TreeKeys(node.left) : k < node.key
       /\ \A k \in TreeKeys(node.right) : node.key < k
       /\ SearchTreeOrdered(node.left)
       /\ SearchTreeOrdered(node.right)

StrictlyAscending(pairs) ==
    \A i \in 1..(Len(pairs) - 1) : pairs[i][1] < pairs[i + 1][1]

\* C1: after any sequence of insert, delete and clear calls, every node's key
\* is greater than every key of its left subtree and smaller than every key
\* of its right subtree, and inorder_traversal() is strictly ascending by key.
C1_SearchTreeOrder ==
    /\ SearchTreeOrdered(root)
    /\ StrictlyAscending(BST_inorder_traversal(Tree))

\* C1 witness: a delete has just removed a node with two children whose
\* successor was not its right child, and at least three keys remain.
C1_Witness ==
    /\ bst_last.op = "delete"
    /\ bst_last.ret = TRUE
    /\ bst_last.pre_root.key = bst_last.key
    /\ bst_last.pre_root.left # None
    /\ bst_last.pre_root.right # None
    /\ bst_last.pre_root.right.left # None
    /\ size >= 3

\* C9: after any sequence of insert, delete and clear calls, the size counter
\* equals the number of nodes reachable from the root and the length of
\* inorder_traversal().
C9_SizeCountsNodes ==
    /\ size = NodeCount(root)
    /\ size = Len(BST_inorder_traversal(Tree))

\* C9 witness: the tree holds several nodes after an insert that overwrote a
\* value, following which the counter must not have moved.
C9_Witness ==
    /\ bst_last.op = "insert"
    /\ bst_last.ret = FALSE
    /\ bst_last.pre_root # root
    /\ size >= 3

RECURSIVE SameButValueAt(_, _, _, _)
\* new is old with the value of the node holding key replaced by value: the
\* same nodes in the same places, every other value untouched.
SameButValueAt(old, new, key, value) ==
    IF old = None \/ new = None THEN old = new
    ELSE /\ new.key = old.key
         /\ new.value = (IF old.key = key THEN value ELSE old.value)
         /\ SameButValueAt(old.left, new.left, key, value)
         /\ SameButValueAt(old.right, new.right, key, value)

RECURSIVE GrownByLeaf(_, _, _, _)
\* new is old with exactly one absent child replaced by a leaf (key, value).
GrownByLeaf(old, new, key, value) ==
    IF old = None THEN new = TreeNode(key, value)
    ELSE /\ new # None
         /\ new.key = old.key
         /\ new.value = old.value
         /\ \/ new.right = old.right /\ GrownByLeaf(old.left, new.left, key, value)
            \/ new.left = old.left /\ GrownByLeaf(old.right, new.right, key, value)

\* C10: insert(key, value) on a key already present overwrites that key's
\* value in place, returns False, creates no node and leaves size unchanged;
\* on a key not present it creates exactly one new leaf holding (key, value),
\* returns True and increases size by exactly 1.
C10_InsertContract ==
    bst_last.op = "insert" =>
        IF bst_last.key \in TreeKeys(bst_last.pre_root)
        THEN /\ bst_last.ret = FALSE
             /\ size = bst_last.pre_size
             /\ NodeCount(root) = NodeCount(bst_last.pre_root)
             /\ SameButValueAt(bst_last.pre_root, root, bst_last.key, bst_last.value)
        ELSE /\ bst_last.ret = TRUE
             /\ size = bst_last.pre_size + 1
             /\ NodeCount(root) = NodeCount(bst_last.pre_root) + 1
             /\ GrownByLeaf(bst_last.pre_root, root, bst_last.key, bst_last.value)

\* C10 witness: an insert has just overwritten the value of a key held below
\* the root with a different value.
C10_Witness ==
    /\ bst_last.op = "insert"
    /\ bst_last.key \in TreeKeys(bst_last.pre_root)
    /\ bst_last.key # bst_last.pre_root.key
    /\ _search_recursive(bst_last.pre_root, bst_last.key) # bst_last.value

\* C11: delete(k) on a present key k returns True, after which search(k)
\* returns absent and size has decreased by exactly 1 (the other keys stay);
\* delete(k) on a key not in the tree returns False and leaves size and the
\* tree contents unchanged.
C11_DeleteContract ==
    bst_last.op = "delete" =>
        IF bst_last.key \in TreeKeys(bst_last.pre_root)
        THEN /\ bst_last.ret = TRUE
             /\ BST_search(Tree, bst_last.key) = None
             /\ size = bst_last.pre_size - 1
             /\ TreeKeys(root) = TreeKeys(bst_last.pre_root) \ {bst_last.key}
        ELSE /\ bst_last.ret = FALSE
             /\ size = bst_last.pre_size
             /\ root = bst_last.pre_root
             /\ BST_inorder_traversal(Tree) =
                   _inorder_recursive(bst_last.pre_root, <<>>)

\* C11 witness: a delete has just removed a key held below the root, smaller
\* and larger keys remaining in the tree.
C11_Witness ==
    /\ bst_last.op = "delete"
    /\ bst_last.key \in TreeKeys(bst_last.pre_root)
    /\ bst_last.key # bst_last.pre_root.key
    /\ bst_last.pre_size - 1 = size
    /\ \E k1, k2 \in TreeKeys(root) : k1 < bst_last.key /\ bst_last.key < k2


(***************************************************************************)
(* Properties of the EventsManager.  Last is the latest call, Before(k)    *)
(* the record k calls earlier (the initial state when no call precedes).   *)
(***************************************************************************)
Calls == Len(hist) - 1

Last == hist[Len(hist)]

Before(k) == hist[Len(hist) - k]

\* The call reported success to its caller.
Succeeded(h) ==
    \/ h.op = "add_event"
    \/ h.op = "delete_event" /\ h.ret # None
    \/ h.op = "edit_event" /\ h.ret = TRUE

\* C3 as claimed: add_event(e) followed immediately by undo() leaves the
\* event list identical to the list before add_event was called.
C3_UndoOfAddRestoresList ==
    (Calls >= 2 /\ Last.op = "undo" /\ Before(1).op = "add_event")
        => Last.list = Before(2).list

\* C4 as claimed: a successful delete_event(p) followed immediately by undo()
\* leaves the event list identical to the list before the delete.
C4_UndoOfDeleteRestoresList ==
    (Calls >= 2 /\ Last.op = "undo" /\ Before(1).op = "delete_event"
                /\ Succeeded(Before(1)))
        => Last.list = Before(2).list

\* C5 as claimed: a successful edit_event(p, new) followed immediately by
\* undo() leaves position p holding the payload it had before the edit, with
\* every other position and the list length unchanged.
C5_UndoOfEditRestoresPayload ==
    (Calls >= 2 /\ Last.op = "undo" /\ Before(1).op = "edit_event"
                /\ Succeeded(Before(1)))
        => /\ Len(Last.list) = Len(Before(2).list)
           /\ \A i \in 1..Len(Last.list) : Last.list[i] = Before(2).list[i]

\* C6 as claimed: performing an action (add_event, delete_event, edit_event),
\* then undo(), then redo() leaves the event list identical to the list right
\* after the action.
C6_RedoReappliesUndone ==
    (Calls >= 3 /\ Last.op = "redo" /\ Before(1).op = "undo"
                /\ Succeeded(Before(2)))
        => Last.list = Before(2).list

\* C7 as claimed: undo() returns False only when the undo stack is empty, and
\* then changes nothing; otherwise it returns True, removes exactly one
\* command from the undo stack and pushes exactly one onto the redo stack.
\* Symmetrically for redo() with the two stacks exchanged.
C7_UndoRedoStackDiscipline ==
    /\ (Calls >= 1 /\ Last.op = "undo") =>
          IF Before(1).undo = 0
          THEN /\ Last.ret = FALSE
               /\ Last.list = Before(1).list
               /\ Last.undo = 0
               /\ Last.redo = Before(1).redo
          ELSE /\ Last.ret = TRUE
               /\ Last.undo = Before(1).undo - 1
               /\ Last.redo = Before(1).redo + 1
    /\ (Calls >= 1 /\ Last.op = "redo") =>
          IF Before(1).redo = 0
          THEN /\ Last.ret = FALSE
               /\ Last.list = Before(1).list
               /\ Last.redo = 0
               /\ Last.undo = Before(1).undo
          ELSE /\ Last.ret = TRUE
               /\ Last.redo = Before(1).redo - 1
               /\ Last.undo = Before(1).undo + 1

\* C8: immediately after every successful add_event, delete_event or
\* edit_event the redo stack is empty, so that redo() then returns False and
\* changes nothing.
C8_ActionClearsRedo ==
    /\ (Calls >= 1 /\ Succeeded(Last)) =>
          /\ Stack_is_empty(redo_stack)
          /\ redo(Manager) = [m |-> Manager, ret |-> FALSE]
    /\ (Calls >= 2 /\ Last.op = "redo" /\ Succeeded(Before(1))) =>
          /\ Last.ret = FALSE
          /\ Last.list = Before(1).list
          /\ Last.undo = Before(1).undo
          /\ Last.redo = 0

\* C8 witness: redo() was called right after a successful action that was
\* performed while the redo stack held a command.
C8_Witness ==
    /\ Calls >= 3
    /\ Last.op = "redo"
    /\ Succeeded(Before(1))
    /\ Before(2).redo > 0


(***************************************************************************)
(* Properties of Graph.dijkstra, checked under SpecGraph.                  *)
(***************************************************************************)
\* The weights of the stored edges from a to b.
EdgeWeights(g, a, b) ==
    {get_neighbors(g, a)[i][2] :
        i \in {j \in 1..Len(get_neighbors(g, a)) : get_neighbors(g, a)[j][1] = b}}

Minimum(S) == CHOOSE x \in S : \A y \in S : x <= y

RECURSIVE CheapestSum(_, _, _)
\* The sum, along path from its i-th vertex on, of the cheapest stored edge
\* between consecutive vertices.
CheapestSum(g, path, i) ==
    IF i >= Len(path) THEN 0
    ELSE Minimum(EdgeWeights(g, path[i], path[i + 1])) + CheapestSum(g, path, i + 1)

PathEnd(path) == path[Len(path)]

RECURSIVE SimplePathsFrom(_, _, _)
\* Every path without a repeated vertex that extends path, along stored
\* edges, to end.
SimplePathsFrom(g, path, end) ==
    IF PathEnd(path) = end THEN {path}
    ELSE UNION {SimplePathsFrom(g, Append(path, n), end) :
                  n \in {v \in g.vertices :
                           /\ EdgeWeights(g, PathEnd(path), v) # {}
                           /\ \A i \in 1..Len(path) : path[i] # v}}

\* The minimum total weight over all paths from start to end, inf when end is
\* not reachable.  Weights being non-negative, a path of minimum weight can
\* be taken without a repeated vertex and along the cheapest of parallel edges.
ShortestDistance(g, start, end) ==
    LET paths == SimplePathsFrom(g, <<start>>, end)
    IN  IF paths = {} THEN inf
        ELSE Minimum({CheapestSum(g, p, 1) : p \in paths})

IsCampus(g) ==
    /\ g.vertices = {1, 2, 3, 4}
    /\ \A a, b \in g.vertices :
          EdgeWeights(g, a, b) =
             (IF {a, b} \in {{1, 2}, {2, 3}, {3, 4}, {4, 1}} THEN {1}
              ELSE IF {a, b} = {1, 3} THEN {5} ELSE {})

\* C2: for known start and end with end reachable from start, dijkstra returns
\* the minimum total weight over all start-to-end paths, and a path that begins
\* at start, ends at end, steps only along stored edges and whose cheapest
\* connecting edges sum to that distance; on the cycle A-B-C-D-A of unit
\* weights plus A-C of weight 5 it returns [A, B, C] with distance 2.
C2_DijkstraShortest ==
    /\ \A start \in vertices, end \in vertices :
          ShortestDistance(TheGraph, start, end) # inf =>
             LET r == dijkstra(TheGraph, start, end)
             IN  /\ r.distance = ShortestDistance(TheGraph, start, end)
                 /\ Len(r.path) >= 1
                 /\ r.path[1] = start
                 /\ r.path[Len(r.path)] = end
                 /\ \A i \in 1..(Len(r.path) - 1) :
                       EdgeWeights(TheGraph, r.path[i], r.path[i + 1]) # {}
                 /\ CheapestSum(TheGraph, r.path, 1) = r.distance
    /\ IsCampus(TheGraph) =>
          dijkstra(TheGraph, 1, 3) = [path |-> <<1, 2, 3>>, distance |-> 2]

\* C2 witness: the four-building campus has been loaded, where the route
\* dijkstra returns between two directly joined buildings has two edges and
\* is cheaper than the direct edge.
C2_Witness ==
    /\ IsCampus(TheGraph)
    /\ \E a \in vertices, b \in vertices :
          /\ EdgeWeights(TheGraph, a, b) # {}
          /\ Len(dijkstra(TheGraph, a, b).path) = 3
          /\ dijkstra(TheGraph, a, b).distance < Minimum(EdgeWeights(TheGraph, a, b))


(***************************************************************************)
(* Properties of Graph.find_all_paths, checked under SpecGraph.            *)
(***************************************************************************)
RECURSIVE PathSums(_, _, _)
\* The totals obtainable along path from its i-th vertex on, taking one
\* stored edge between each two consecutive vertices.
PathSums(g, path, i) ==
    IF i >= Len(path) THEN {0}
    ELSE {w + t : w \in EdgeWeights(g, path[i], path[i + 1]),
                  t \in PathSums(g, path, i + 1)}

\* No two stored edges join the same two distinct vertices.
NoParallelEdges(g) ==
    \A a \in g.vertices, b \in g.vertices :
        a # b => Cardinality({j \in 1..Len(get_neighbors(g, a)) :
                                get_neighbors(g, a)[j][1] = b}) <= 1

\* C12: every path returned by find_all_paths(start, end, max_paths) with
\* start # end begins at start, ends at end, repeats no vertex, steps only
\* along stored edges, and its reported distance is the sum of the weights
\* of stored edges joining its consecutive vertices.
C12_PathsAreSimple ==
    \A start \in vertices, end \in vertices, max_paths \in PathLimits :
        start # end =>
            LET r == find_all_paths(TheGraph, start, end, max_paths)
            IN  \A k \in 1..Len(r) :
                    /\ Len(r[k].path) >= 2
                    /\ r[k].path[1] = start
                    /\ PathEnd(r[k].path) = end
                    /\ \A i, j \in 1..Len(r[k].path) :
                          i # j => r[k].path[i] # r[k].path[j]
                    /\ \A i \in 1..(Len(r[k].path) - 1) :
                          EdgeWeights(TheGraph, r[k].path[i], r[k].path[i + 1]) # {}
                    /\ r[k].distance \in PathSums(TheGraph, r[k].path, 1)

\* C12 witness: in a graph with a cycle through start, find_all_paths returns
\* several paths, one of them through at least two intermediate vertices.
C12_Witness ==
    \E start \in vertices, end \in vertices :
        /\ start # end
        /\ \E a \in vertices, b \in vertices :
              /\ Cardinality({start, a, b}) = 3
              /\ EdgeWeights(TheGraph, start, a) # {}
              /\ EdgeWeights(TheGraph, a, b) # {}
              /\ EdgeWeights(TheGraph, b, start) # {}
        /\ LET r == find_all_paths(TheGraph, start, end, DefaultMaxPaths)
           IN  /\ Len(r) >= 2
               /\ \E k \in 1..Len(r) : Len(r[k].path) >= 4

\* C13: on a graph without parallel edges in which the number k of simple
\* paths from start to end (start # end, both known) is at most max_paths,
\* find_all_paths(start, end, max_paths) returns exactly those k simple paths,
\* each exactly once.
C13_AllSimplePathsOnce ==
    NoParallelEdges(TheGraph) =>
        \A start \in vertices, end \in vertices, max_paths \in PathLimits :
            LET simple == SimplePathsFrom(TheGraph, <<start>>, end)
                r      == find_all_paths(TheGraph, start, end, max_paths)
            IN  (start # end /\ Cardinality(simple) <= max_paths) =>
                    /\ Len(r) = Cardinality(simple)
                    /\ {r[i].path : i \in 1..Len(r)} = simple

\* C13 witness: a graph without parallel edges where some start and end are
\* joined by exactly max_paths simple paths, max_paths being at least 2.
C13_Witness ==
    /\ NoParallelEdges(TheGraph)
    /\ \E start \in vertices, end \in vertices, max_paths \in PathLimits :
          /\ start # end
          /\ max_paths >= 2
          /\ Cardinality(SimplePathsFrom(TheGraph, <<start>>, end)) = max_paths
          /\ Len(find_all_paths(TheGraph, start, end, max_paths)) = max_paths

\* C14: the list returned by find_all_paths is ordered by non-decreasing
\* total distance: of every two adjacent entries the earlier one's distance
\* is at most the later one's.
C14_SortedByDistance ==
    \A start \in Vertices, end \in Vertices, max_paths \in PathLimits :
        LET r == find_all_paths(TheGraph, start, end, max_paths)
        IN  \A i \in 1..(Len(r) - 1) : r[i].distance <= r[i + 1].distance

\* C14 witness: a returned list with an entry that has more vertices than
\* the entry after it and a strictly smaller distance, so that it was
\* recorded later.
C14_Witness ==
    \E start \in vertices, end \in vertices, max_paths \in PathLimits :
        LET r == find_all_paths(TheGraph, start, end, max_paths)
        IN  \E i \in 1..(Len(r) - 1) :
                /\ Len(r[i].path) > Len(r[i + 1].path)
                /\ r[i].distance < r[i + 1].distance

\* C15 as claimed: whenever find_all_paths(start, end, max_paths) is not
\* empty, max_paths being at least 1, its first entry's distance equals the
\* distance returned by dijkstra(start, end).
C15_FirstPathIsShortest ==
    \A start \in vertices, end \in vertices, max_paths \in PathLimits :
        LET r == find_all_paths(TheGraph, start, end, max_paths)
        IN  (max_paths >= 1 /\ r # <<>>) =>
                r[1].distance = dijkstra(TheGraph, start, end).distance

\* Vertices a caller may name: those the model adds and one never added.
AnyVertex == 0..NumVertices

\* C16: dijkstra(start, end) returns the empty path together with infinite
\* distance when start or end is not a vertex of the graph or when end is
\* not reachable from start.
C16_DijkstraNoRoute ==
    \A start \in AnyVertex, end \in AnyVertex :
        (\/ start \notin vertices
         \/ end \notin vertices
         \/ SimplePathsFrom(TheGraph, <<start>>, end) = {})
            => dijkstra(TheGraph, start, end) = [path |-> <<>>, distance |-> inf]

\* C16 witness: the graph has edges, and holds both a vertex that no path
\* joins to some other vertex and fewer vertices than a caller may name.
C16_Witness ==
    /\ EdgeCount >= 1
    /\ \E start \in vertices, end \in vertices :
          /\ get_neighbors(TheGraph, start) # <<>>
          /\ SimplePathsFrom(TheGraph, <<start>>, end) = {}
    /\ \E v \in AnyVertex : v \notin vertices


(***************************************************************************)
(* Properties of the DoublyLinkedList, checked under SpecList.             *)
(***************************************************************************)
RECURSIVE Walk(_, _, _, _)
\* The identities of the nodes visited from current by following next
\* (forward) or prev links, at most fuel of them.
Walk(l, current, forward, fuel) ==
    IF current = None \/ fuel = 0 THEN <<>>
    ELSE <<current[1]>> \o
         Walk(l, IF forward THEN Deref(l, current).next ELSE Deref(l, current).prev,
              forward, fuel - 1)

Reverse(seq) == [i \in 1..Len(seq) |-> seq[Len(seq) + 1 - i]]

WellFormed(l) ==
    LET fuel     == Cardinality(DOMAIN l.nodes) + 1
        forward  == Walk(l, l.head, TRUE, fuel)
        backward == Walk(l, l.tail, FALSE, fuel)
    IN  /\ (l.head = None) <=> (l.tail = None)
        /\ (l.head = None) <=> (l.size = 0)
        /\ l.head # None => Deref(l, l.head).prev = None
        /\ l.tail # None => Deref(l, l.tail).next = None
        /\ Len(forward) = l.size
        /\ backward = Reverse(forward)

\* The last call was one of the four delete operations and it was asked to
\* remove the only element of a one-element list.
DeletedTheOnlyElement ==
    /\ list_last.pre.size = 1
    /\ \/ list_last.op \in {"delete_from_beginning", "delete_from_end"}
       \/ list_last.op = "delete_at_position" /\ list_last.position = 0
       \/ list_last.op = "delete_by_value"
             /\ list_last.data = DLL_to_list(list_last.pre)[1]

\* C17: after any sequence of insert, delete, update and clear calls the
\* list is well formed: head is None iff tail is None iff size = 0; otherwise
\* head.prev and tail.next are None; the nodes reachable forward from head
\* number size; following prev from tail visits the same nodes in reverse
\* order.  Deleting the only element, by any of the four delete operations,
\* leaves head = tail = None and size = 0.
C17_ListWellFormed ==
    /\ WellFormed(linked_list)
    /\ DeletedTheOnlyElement =>
          /\ linked_list.head = None
          /\ linked_list.tail = None
          /\ linked_list.size = 0

\* C17 witness: delete_by_value has just unlinked an interior node of a list
\* of at least three nodes.
C17_Witness ==
    /\ list_last.op = "delete_by_value"
    /\ list_last.pre.size >= 3
    /\ linked_list.size = list_last.pre.size - 1
    /\ linked_list.head = list_last.pre.head
    /\ linked_list.tail = list_last.pre.tail

\* The position passed to the last call, n being the size before the call.
ValidForInsert == 0 <= list_last.position /\ list_last.position <= list_last.pre.size

ValidForAccess == 0 <= list_last.position /\ list_last.position < list_last.pre.size

\* C18: for a list of size n and 0 <= p <= n, insert_at_position(x, p)
\* returns True, after which get_at_position(p) is x, size is n + 1, the
\* elements formerly at positions < p are unchanged and those formerly at
\* positions >= p are each shifted up by one.
C18_InsertAtPosition ==
    (list_last.op = "insert_at_position" /\ ValidForInsert) =>
        LET p      == list_last.position
            before == DLL_to_list(list_last.pre)
            after  == DLL_to_list(linked_list)
        IN  /\ list_last.ret = TRUE
            /\ DLL_get_at_position(linked_list, p) = list_last.data
            /\ DLL_get_size(linked_list) = DLL_get_size(list_last.pre) + 1
            /\ Len(after) = Len(before) + 1
            /\ \A i \in 1..p : after[i] = before[i]
            /\ \A i \in (p + 1)..Len(before) : after[i + 1] = before[i]

\* C18 witness: an element has just been inserted strictly inside a list
\* whose neighbours at that position differ from it.
C18_Witness ==
    /\ list_last.op = "insert_at_position"
    /\ 0 < list_last.position
    /\ list_last.position < list_last.pre.size
    /\ list_last.ret = TRUE
    /\ DLL_get_at_position(list_last.pre, list_last.position) # list_last.data

\* The last call left head, tail, size and the element sequence as they were.
ListUntouched ==
    /\ linked_list.head = list_last.pre.head
    /\ linked_list.tail = list_last.pre.tail
    /\ linked_list.size = list_last.pre.size
    /\ DLL_to_list(linked_list) = DLL_to_list(list_last.pre)

\* C19: on a list of size n, insert_at_position with p < 0 or p > n returns
\* False, and delete_at_position, get_at_position and update_at_position
\* with p < 0 or p >= n return None / None / False; in every such case head,
\* tail, size and the element sequence are unchanged.
C19_OutOfRangePositions ==
    /\ (list_last.op = "insert_at_position" /\ ~ValidForInsert) =>
          list_last.ret = FALSE /\ ListUntouched
    /\ (list_last.op \in {"delete_at_position", "get_at_position"} /\ ~ValidForAccess) =>
          list_last.ret = None /\ ListUntouched
    /\ (list_last.op = "update_at_position" /\ ~ValidForAccess) =>
          list_last.ret = FALSE /\ ListUntouched

\* C19 witness: delete_at_position has just been called on a list of several
\* elements with the position one past the last element.
C19_Witness ==
    /\ list_last.op = "delete_at_position"
    /\ list_last.pre.size >= 2
    /\ list_last.position = list_last.pre.size

(***************************************************************************)
(* Properties of the Stack, checked under SpecStack.                       *)
(***************************************************************************)
\* C20 as claimed: after any sequence of push, pop, clear and
\* set_max_size(n), n an integer >= 0 or None, whenever max_size is set the
\* number of items is at most max_size.
C20_StackWithinMaxSize ==
    stack.max_size # None => Stack_size(stack) <= stack.max_size[1]

\* C21: after any sequence of enqueue, dequeue, remove, clear and
\* set_max_size(n), n an integer >= 0 or None, whenever the queue's max_size
\* is set the number of items is at most max_size.
C21_QueueWithinMaxSize ==
    the_queue.max_size # None => Queue_size(the_queue) <= the_queue.max_size[1]

\* enqueue has just been refused by a queue that set_max_size had cut down
\* to a maximum of at least one item.
C21_Witness ==
    /\ queue_last.op = "enqueue"
    /\ queue_last.ret = FALSE
    /\ Queue_size(the_queue) >= 1
    /\ Queue_size(the_queue) = the_queue.max_size[1]

\* What C22 asks of an append (push or enqueue) recorded in last, on the
\* container after: refused without a change when the item count equalled
\* max_size, else accepted with the item added behind the earlier items.
AppendContract(last, after) ==
    IF last.pre.max_size # None /\ Len(last.pre.items) = last.pre.max_size[1]
    THEN last.ret = FALSE /\ after = last.pre
    ELSE /\ last.ret = TRUE
         /\ after.items = Append(last.pre.items, last.arg)
         /\ after.max_size = last.pre.max_size

\* C22 as claimed: push and enqueue on a container whose item count equals
\* max_size return False and leave contents and max_size unchanged;
\* otherwise they return True and append exactly the given item, leaving
\* all earlier items in place.
C22_AppendUnlessFull ==
    /\ stack_last.op = "push" => AppendContract(stack_last, stack)
    /\ queue_last.op = "enqueue" => AppendContract(queue_last, the_queue)

\* The identities of the objects in items; objects are numbered in the order
\* in which they were pushed or enqueued.
Ids(items) == {items[i].id : i \in 1..Len(items)}

Without(items, item) == SelectSeq(items, LAMBDA x : x # item)

\* A removal (pop or dequeue) recorded in last took the object numbered id
\* out of the container and returned it, the other items staying in place;
\* on an empty container it returned None and changed nothing.
Took(last, after, id) ==
    IF last.pre.items = <<>>
    THEN last.ret = None /\ after = last.pre
    ELSE /\ last.ret # None
         /\ last.ret.id = id
         /\ id \in Ids(last.pre.items)
         /\ after.items = Without(last.pre.items, last.ret)
         /\ Len(after.items) = Len(last.pre.items) - 1
         /\ after.max_size = last.pre.max_size

\* The number of the last / first numbered object among items (not empty).
Newest(items) == CHOOSE id \in Ids(items) : \A other \in Ids(items) : other <= id
Oldest(items) == CHOOSE id \in Ids(items) : \A other \in Ids(items) : id <= other

\* C23: over any sequence of operations, pop removes and returns the most
\* recently pushed item still in the stack and dequeue removes and returns
\* the earliest enqueued item still in the queue; on an empty container
\* both return None and leave it unchanged.
C23_LifoAndFifo ==
    /\ stack_last.op = "pop" => Took(stack_last, stack, Newest(stack_last.pre.items))
    /\ queue_last.op = "dequeue" => Took(queue_last, the_queue, Oldest(queue_last.pre.items))

\* dequeue has just returned an object from a queue that had lost an
\* earlier-enqueued neighbour of a remaining item to remove: the queue
\* before the call held objects that were not enqueued one after another.
C23_Witness ==
    /\ queue_last.op = "dequeue"
    /\ queue_last.ret # None
    /\ Len(queue_last.pre.items) >= 2
    /\ \E i \in 1..(Len(queue_last.pre.items) - 1) :
          queue_last.pre.items[i + 1].id > queue_last.pre.items[i].id + 1

\* The last n items of items, in their order.
LastItems(items, n) == SubSeq(items, Len(items) - n + 1, Len(items))

\* What C24 asks of a set_max_size call recorded in last.
ResizeContract(last, after) ==
    /\ after.max_size = last.arg
    /\ IF last.arg # None /\ last.arg[1] < Len(last.pre.items)
       THEN after.items = LastItems(last.pre.items, last.arg[1])
       ELSE after.items = last.pre.items

\* C24 as claimed: set_max_size(n) with an integer n >= 0 smaller than the
\* current length leaves exactly the n most recently pushed (enqueued)
\* items in their original order; with n None or at least the current
\* length it leaves the contents unchanged.
C24_ResizeKeepsNewest ==
    /\ stack_last.op = "set_max_size" => ResizeContract(stack_last, stack)
    /\ queue_last.op = "set_max_size" => ResizeContract(queue_last, the_queue)

\* The number of (neighbor, weight) entries equal to entry in vertex's
\* adjacency list; 0 for a vertex without a list.
Entries(g, vertex, entry) ==
    IF vertex \in DOMAIN g.adjacency_list
    THEN Cardinality({j \in 1..Len(g.adjacency_list[vertex]) :
                        g.adjacency_list[vertex][j] = entry})
    ELSE 0

\* C25: after any sequence of add_vertex and add_edge calls the adjacency
\* storage is symmetric with multiplicity (for all vertices a # b and every
\* weight w, a's list has as many (b, w) entries as b's list has (a, w)
\* entries), and every vertex named in an adjacency list is in vertices and
\* has its own adjacency entry.
C25_SymmetricAdjacency ==
    /\ \A a \in Vertices, b \in Vertices, w \in Weights :
          a # b => Entries(TheGraph, a, <<b, w>>) = Entries(TheGraph, b, <<a, w>>)
    /\ \A v \in DOMAIN adjacency_list : \A j \in 1..Len(adjacency_list[v]) :
          /\ adjacency_list[v][j][1] \in vertices
          /\ adjacency_list[v][j][1] \in DOMAIN adjacency_list

\* Two add_edge calls have stored the same pair a # b with the same weight,
\* so that each of the two lists holds the entry twice.
C25_Witness ==
    \E a \in vertices, b \in vertices, w \in Weights :
        /\ a # b
        /\ Entries(TheGraph, a, <<b, w>>) = 2
        /\ Entries(TheGraph, b, <<a, w>>) = 2

\* C26: after add_vertex for each id of V and add_edge calls whose endpoints
\* are in V, get_vertices() equals V and get_graph_info()['edges'] equals
\* the number of add_edge calls made, a repeated pair counting once per
\* call and adding two adjacency entries.
C26_BuiltFromCalls ==
    /\ calls_made.endpoints \subseteq calls_made.V => get_vertices(TheGraph) = calls_made.V
    /\ total_edges(TheGraph) = calls_made.E
    /\ SumOfLengths(adjacency_list, DOMAIN adjacency_list) = 2 * calls_made.E

\* All vertices were added by add_vertex, one of them has no edge, and
\* add_edge was called twice for the same pair of them.
C26_Witness ==
    /\ calls_made.endpoints \subseteq calls_made.V
    /\ calls_made.endpoints # calls_made.V
    /\ calls_made.E = 2
    /\ \E a \in vertices, b \in vertices :
          Cardinality({j \in 1..Len(adjacency_list[a]) : adjacency_list[a][j][1] = b}) = 2

IsPrefix(s, t) == Len(s) <= Len(t) /\ \A i \in 1..Len(s) : s[i] = t[i]

\* The identities of the pending tasks, front first.
PendingIds == [i \in 1..Len(get_pending_tasks(Scheduler)) |->
                 get_pending_tasks(Scheduler)[i].id]

\* C27: over any interleaving of add_task and complete_next_task the tasks
\* returned by complete_next_task are, in order, a prefix of the tasks
\* added (the pending tasks being the rest of them, in order), and
\* peek_next_task returns the task the next complete_next_task returns.
C27_SchedulerFifo ==
    /\ IsPrefix(tasks_log.returned, tasks_log.added)
    /\ tasks_log.returned \o PendingIds = tasks_log.added
    /\ LET peeked    == peek_next_task(Scheduler)
           completed == complete_next_task(Scheduler).ret
       IN  IF peeked = None THEN completed = None
           ELSE completed # None /\ completed.id = peeked.id

\* A task added by add_task has been completed, after all sample tasks,
\* while others added after it are pending.
C27_Witness ==
    /\ Len(tasks_log.returned) > SampleTasks
    /\ Len(PendingIds) >= 2

\* C28 as claimed, for the Queue: no operation raises an error, whatever
\* its input, any integer max_size (0 and negative values included) among
\* them; each call returns.
C28_NoOperationRaises == queue_last.raised = None

\* At every node of the subtree the heights of the two subtrees differ by
\* at most 1.
RECURSIVE BalancedAtEveryNode(_)
BalancedAtEveryNode(node) ==
    \/ node = None
    \/ /\ Abs(_get_height_recursive(node.left) - _get_height_recursive(node.right)) <= 1
       /\ BalancedAtEveryNode(node.left)
       /\ BalancedAtEveryNode(node.right)

\* The tree after inserting the keys of a sequence, in order, into an empty
\* tree.
RECURSIVE InsertAll(_, _)
InsertAll(t, keys) ==
    IF keys = <<>> THEN t
    ELSE LET r == BST_insert(t, Head(keys), [id |-> 1])
         IN  InsertAll([root |-> r.root, size |-> r.size], Tail(keys))

Increasing(n) == [i \in 1..n |-> i]

\* The keys lo..hi, the middle one first, then the keys below it and the
\* keys above it, each in the same manner.
RECURSIVE MedianFirst(_, _)
MedianFirst(lo, hi) ==
    IF lo > hi THEN <<>>
    ELSE LET mid == (lo + hi) \div 2
         IN  <<mid>> \o MedianFirst(lo, mid - 1) \o MedianFirst(mid + 1, hi)

\* The keys of a tree in their places, without the values.
RECURSIVE Shape(_)
Shape(node) ==
    IF node = None THEN None
    ELSE [key |-> node.key, left |-> Shape(node.left), right |-> Shape(node.right)]

\* C29: is_balanced() is True exactly when at every node the heights of the
\* left and right subtrees differ by at most 1 (True for the empty tree);
\* it is False after inserting 1..N in increasing order for every N >= 3
\* and True after inserting a median-first recursive split of 1..N (the
\* longer sequences, up to MaxChain keys, are built on the empty tree).
C29_IsBalanced ==
    /\ BST_is_balanced(Tree) <=> BalancedAtEveryNode(root)
    /\ LET n == NodeCount(root)
       IN  /\ (n >= 3 /\ Shape(root) = Shape(InsertAll(BinarySearchTree, Increasing(n)).root))
                => ~BST_is_balanced(Tree)
           /\ Shape(root) = Shape(InsertAll(BinarySearchTree, MedianFirst(1, n)).root)
                => BST_is_balanced(Tree)
    /\ root = None =>
          /\ \A n \in 3..MaxChain :
                ~BST_is_balanced(InsertAll(BinarySearchTree, Increasing(n)))
          /\ \A n \in 0..MaxChain :
                BST_is_balanced(InsertAll(BinarySearchTree, MedianFirst(1, n)))

\* The tree holds 1..N, N >= 3, inserted in increasing order, so that it is
\* a chain to the right, and is_balanced() is False.
C29_Witness ==
    /\ size >= 3
    /\ Shape(root) = Shape(InsertAll(BinarySearchTree, Increasing(size)).root)
    /\ bst_last.op = "insert"
    /\ bst_last.key = size
    /\ ~BST_is_balanced(Tree)

\* The command a successful action h records, prev being the snapshot
\* before it.
CommandOf(h, prev) ==
    CASE h.op = "add_event" ->
           [type |-> DELETE_EVENT, position |-> Len(prev.list), event |-> h.event]
      [] h.op = "delete_event" ->
           [type |-> ADD_EVENT, position |-> h.position, event |-> h.ret]
      [] h.op = "edit_event" ->
           [type |-> EDIT_EVENT, position |-> h.position,
            old_event |-> prev.list[h.position + 1], new_event |-> h.event]

\* C30 as claimed: every successful add_event, delete_event or edit_event
\* records its command on top of the undo stack, however many actions came
\* before it without an undo, more than the stack's capacity of 50
\* included.
C30_ActionOnTopOfUndoStack ==
    (Calls >= 1 /\ Succeeded(Last))
        => /\ ~Stack_is_empty(undo_stack)
           /\ undo_stack.items[Stack_size(undo_stack)] = CommandOf(Last, Before(1))

\* A plain sequence, positions counted from 0.
InsertAt(s, p, x) == SubSeq(s, 1, p) \o <<x>> \o SubSeq(s, p + 1, Len(s))
RemoveAt(s, p) == SubSeq(s, 1, p) \o SubSeq(s, p + 2, Len(s))
ReplaceAt(s, p, x) == [s EXCEPT ![p + 1] = x]

\* The position of the first element of s equal to x, as <<position>>, or
\* None.
FirstIndex(s, x) ==
    IF \E i \in 1..Len(s) : s[i] = x
    THEN <<(CHOOSE i \in 1..Len(s) : s[i] = x /\ \A j \in 1..(i - 1) : s[j] # x) - 1>>
    ELSE None

\* The call recorded in h applied to the plain sequence s; a call with no
\* element to act on or a position out of range leaves s as it is.
AppliedTo(s, h) ==
    CASE h.op = "insert_at_beginning" -> <<h.data>> \o s
      [] h.op = "insert_at_end" -> Append(s, h.data)
      [] h.op = "insert_at_position" ->
           IF 0 <= h.position /\ h.position <= Len(s)
           THEN InsertAt(s, h.position, h.data) ELSE s
      [] h.op = "delete_from_beginning" -> IF s = <<>> THEN s ELSE Tail(s)
      [] h.op = "delete_from_end" -> IF s = <<>> THEN s ELSE SubSeq(s, 1, Len(s) - 1)
      [] h.op = "delete_at_position" ->
           IF 0 <= h.position /\ h.position < Len(s) THEN RemoveAt(s, h.position) ELSE s
      [] h.op = "delete_by_value" ->
           IF FirstIndex(s, h.data) = None THEN s ELSE RemoveAt(s, FirstIndex(s, h.data)[1])
      [] h.op = "update_at_position" ->
           IF 0 <= h.position /\ h.position < Len(s)
           THEN ReplaceAt(s, h.position, h.data) ELSE s
      [] h.op = "clear" -> <<>>
      [] OTHER -> s

\* C31: after any sequence of insertions, deletions, updates and clear,
\* to_list() equals the result of applying the same operations to a plain
\* sequence (each call takes the sequence of the list before it to the
\* sequence of the list after it, delete_by_value removing only the first
\* equal element and update changing only the addressed position), and
\* search(v) returns the index of the first element equal to v in that
\* sequence, or None.
C31_ListRefinesSequence ==
    /\ DLL_to_list(linked_list) = AppliedTo(DLL_to_list(list_last.pre), list_last)
    /\ \A v \in Events : DLL_search(linked_list, v) = FirstIndex(DLL_to_list(linked_list), v)

\* delete_by_value has just removed the first of two equal elements that
\* were apart: the value is now found one place further on.
C31_Witness ==
    /\ list_last.op = "delete_by_value"
    /\ list_last.ret = TRUE
    /\ Len(DLL_to_list(list_last.pre)) = 3
    /\ DLL_search(list_last.pre, list_last.data) = <<0>>
    /\ DLL_search(linked_list, list_last.data) = <<1>>

\* The abstract map of a tree: the set of the (key, value) pairs of its
\* inorder traversal.
Pairs(t) == LET pairs == BST_inorder_traversal(t) IN {pairs[i] : i \in 1..Len(pairs)}

\* The call recorded in h applied to the abstract map P: insert puts or
\* overwrites, delete removes, clear empties.
MapAfter(P, h) ==
    CASE h.op = "insert" -> {p \in P : p[1] # h.key} \cup {<<h.key, h.value>>}
      [] h.op = "delete" -> {p \in P : p[1] # h.key}
      [] h.op = "clear"  -> {}
      [] OTHER -> P

RECURSIVE NodeAt(_, _)
\* The node of the subtree that holds key, or None.
NodeAt(node, key) ==
    IF node = None THEN None
    ELSE IF key = node.key THEN node
    ELSE IF key < node.key THEN NodeAt(node.left, key)
    ELSE NodeAt(node.right, key)

\* C32: after any sequence of insert, delete and clear, inorder_traversal()
\* is the key-sorted list of the (key, value) pairs of the abstract map
\* obtained by the same operations (each call takes the map of the tree
\* before it to the map of the tree after it): a delete, also of a node
\* with two children, removes exactly that key's pair and changes no other
\* key's value.
C32_TreeRefinesMap ==
    LET pre == [root |-> bst_last.pre_root, size |-> bst_last.pre_size]
        now == BST_inorder_traversal(Tree)
    IN  /\ Pairs(Tree) = MapAfter(Pairs(pre), bst_last)
        /\ Len(now) = Cardinality(Pairs(Tree))
        /\ StrictlyAscending(now)

\* delete has just removed a node below the root that had two children and
\* a value other than its successor's.
C32_Witness ==
    /\ bst_last.op = "delete"
    /\ bst_last.ret = TRUE
    /\ bst_last.key # bst_last.pre_root.key
    /\ LET node == NodeAt(bst_last.pre_root, bst_last.key)
       IN  /\ node.left # None
           /\ node.right # None
           /\ _find_min(node.right).value # node.value

\* Start vertices of the traversals examined: every vertex of the graph,
\* and vertices it may not have (0 is never one).
Starts == vertices \cup AnyVertex

Range(r) == {r[i] : i \in 1..Len(r)}
NoRepeats(r) == \A i \in 1..Len(r), j \in 1..Len(r) : i # j => r[i] # r[j]
Position(r, v) == CHOOSE i \in 1..Len(r) : r[i] = v

\* The vertices named in the adjacency list of v.
NeighborSet(g, v) == {get_neighbors(g, v)[j][1] : j \in 1..Len(get_neighbors(g, v))}

\* The place of the first entry for w in the adjacency list of v.
EntryOf(g, v, w) ==
    CHOOSE j \in 1..Len(get_neighbors(g, v)) :
        /\ get_neighbors(g, v)[j][1] = w
        /\ \A k \in 1..(j - 1) : get_neighbors(g, v)[k][1] # w

RECURSIVE Reachable(_, _)
\* The vertices that can be reached from those of S along edges.
Reachable(g, S) ==
    LET T == S \cup UNION {NeighborSet(g, v) : v \in S}
    IN  IF T = S THEN S ELSE Reachable(g, T)

RECURSIVE HopsWithin(_, _, _, _)
\* The number of edges of a shortest route to v from the set S of vertices
\* at most d edges away from the start (v is reachable).
HopsWithin(g, S, d, v) ==
    IF v \in S THEN d
    ELSE HopsWithin(g, S \cup UNION {NeighborSet(g, u) : u \in S}, d + 1, v)

HopDistance(g, start, v) == HopsWithin(g, {start}, 0, v)

\* r lists breadth first from its first vertex: each later vertex was
\* discovered from the earliest listed vertex it is adjacent to, and the
\* vertices are listed in the order of their discovery, those discovered
\* from one vertex in the order of its adjacency list.
BreadthFirstOrder(g, r) ==
    LET Parent(i) == CHOOSE k \in 1..Len(r) :
                        /\ r[i] \in NeighborSet(g, r[k])
                        /\ \A m \in 1..(k - 1) : r[i] \notin NeighborSet(g, r[m])
        Before_(i, j) == \/ Parent(i) < Parent(j)
                         \/ /\ Parent(i) = Parent(j)
                            /\ EntryOf(g, r[Parent(i)], r[i]) < EntryOf(g, r[Parent(i)], r[j])
    IN  \A i \in 2..Len(r), j \in 2..Len(r) :
            i < j => Parent(i) < i /\ Before_(i, j)

\* C33: bfs(start) for a known start returns every vertex reachable from
\* start exactly once, beginning with start, in non-decreasing order of hop
\* distance from start, the neighbours of each vertex discovered in that
\* vertex's adjacency insertion order; for an unknown start it returns the
\* empty list.
C33_BreadthFirst ==
    \A start \in Starts :
        LET r == bfs(TheGraph, start)
        IN  IF start \notin vertices THEN r = <<>>
            ELSE /\ r[1] = start
                 /\ NoRepeats(r)
                 /\ Range(r) = Reachable(TheGraph, {start})
                 /\ \A i \in 1..Len(r), j \in 1..Len(r) :
                       i < j => HopDistance(TheGraph, start, r[i])
                                  <= HopDistance(TheGraph, start, r[j])
                 /\ BreadthFirstOrder(TheGraph, r)

\* On the campus of four buildings bfs from the second building lists both
\* of its neighbours before the building two hops away, which dfs reaches
\* before the second neighbour.
C33_Witness ==
    /\ IsCampus(TheGraph)
    /\ bfs(TheGraph, 2) = <<2, 1, 3, 4>>
    /\ dfs(TheGraph, 2) = <<2, 1, 4, 3>>
    /\ bfs(TheGraph, 0) = <<>>

\* r lists depth first from its first vertex: each vertex after the first
\* is the first neighbour not yet listed, in adjacency order, of the latest
\* listed vertex that has one, and in the end none has one.
DepthFirstOrder(g, r) ==
    LET Listed(i) == {r[k] : k \in 1..i}
        Open(i)   == {k \in 1..i : NeighborSet(g, r[k]) \ Listed(i) # {}}
        Latest(i) == CHOOSE k \in Open(i) : \A m \in Open(i) : m <= k
        FirstNew(v, i) ==
            LET j == CHOOSE j \in 1..Len(get_neighbors(g, v)) :
                        /\ get_neighbors(g, v)[j][1] \notin Listed(i)
                        /\ \A k \in 1..(j - 1) : get_neighbors(g, v)[k][1] \in Listed(i)
            IN  get_neighbors(g, v)[j][1]
    IN  /\ \A i \in 1..(Len(r) - 1) :
              Open(i) # {} /\ r[i + 1] = FirstNew(r[Latest(i)], i)
        /\ Open(Len(r)) = {}

\* C34: dfs(start) for a known start returns every vertex reachable from
\* start exactly once in depth-first preorder: start first, each vertex
\* followed by the first, in adjacency insertion order, of its neighbours
\* not yet visited, backtracking when none remains; for an unknown start it
\* returns the empty list.
C34_DepthFirst ==
    \A start \in Starts :
        LET r == dfs(TheGraph, start)
        IN  IF start \notin vertices THEN r = <<>>
            ELSE /\ r[1] = start
                 /\ NoRepeats(r)
                 /\ Range(r) = Reachable(TheGraph, {start})
                 /\ DepthFirstOrder(TheGraph, r)

\* On the campus of four buildings dfs from the third building goes on
\* from its first neighbour and backtracks to list the last one.
C34_Witness ==
    /\ IsCampus(TheGraph)
    /\ dfs(TheGraph, 1) = <<1, 2, 3, 4>>
    /\ dfs(TheGraph, 3) = <<3, 2, 1, 4>>
    /\ dfs(TheGraph, 0) = <<>>

\* max_paths arguments from 0 on.
PathCaps == 0..MaxPaths

\* C35 as claimed: find_all_paths(start, end, max_paths) never returns more
\* than max_paths entries, for every max_paths >= 0 and every pair of
\* vertices, known or unknown, equal or different; for a known start = end
\* with max_paths >= 1 it returns the single path [start] of distance 0,
\* and for an unknown endpoint the empty list.
C35_AtMostMaxPaths ==
    \A start \in AnyVertex, end \in AnyVertex, max_paths \in PathCaps :
        LET r == find_all_paths(TheGraph, start, end, max_paths)
        IN  /\ Len(r) <= max_paths
            /\ (start \notin vertices \/ end \notin vertices) => r = <<>>
            /\ (start \in vertices /\ start = end /\ max_paths >= 1)
                  => r = <<[path |-> <<start>>, distance |-> 0]>>

(***************************************************************************)
(* C36.  find_all_paths terminates on every finite graph, with cycles,     *)
(* self-loops and parallel edges, for every max_paths: a call that has     *)
(* entered its loop returns, the frontier exhausted or the cap reached.    *)
(***************************************************************************)
HasSelfLoop == \E v \in vertices : v \in NeighborSet(TheGraph, v)

HasParallelEdges == \E v \in vertices :
    \E i, j \in 1..Len(adjacency_list[v]) :
        i < j /\ adjacency_list[v][i][1] = adjacency_list[v][j][1]
              /\ adjacency_list[v][i][1] # v

Returned == /\ ~search.running
            /\ search.start_vertex \in vertices /\ search.end_vertex \in vertices
            /\ search.start_vertex # search.end_vertex

C36_Terminates == search.running ~> ~search.running

\* The call followed step by step returns what find_all_paths computes in
\* one go, and while the loop runs the paths found stay within the cap.
SearchReturnsTheResult ==
    /\ Returned =>
          search.result = find_all_paths(TheGraph, search.start_vertex,
                                         search.end_vertex, search.max_paths)
    /\ search.running => Len(search.paths) <= Max(search.max_paths, 0)

\* A call on the campus cycle, with a self-loop and a parallel edge added,
\* has returned several paths.
C36_Witness ==
    /\ Returned /\ HasSelfLoop /\ HasParallelEdges
    /\ vertices = {1, 2, 3, 4}
    /\ search.max_paths = DefaultMaxPaths
    /\ Len(search.result) > 2

(***************************************************************************)
(* C37.  add_event returns True exactly when the new event is stored in    *)
(* the tree after the call; when it returns False the set of stored events *)
(* is unchanged; and after any add_event / delete_event calls the category *)
(* of every stored event is a member of categories.                        *)
(***************************************************************************)
Stored(t) == {BST_inorder_traversal(t.bst)[i][2] :
                 i \in 1..Len(BST_inorder_traversal(t.bst))}

C37_AddEventReportsStorage ==
    /\ tree_last.op = "add_event" =>
          /\ tree_last.ret = TRUE <=> tree_last.event \in Stored(event_tree)
          /\ tree_last.ret = FALSE => Stored(event_tree) = Stored(tree_last.pre)
    /\ \A event \in Stored(event_tree) : event.category \in event_tree.categories

(***************************************************************************)
(* C38.  Stack.to_list() returns a copy of the stack contents ordered top  *)
(* to bottom, the most recently pushed item first, and modifying the       *)
(* returned list does not change the stack.                                *)
(***************************************************************************)
C38_ToListTopToBottom ==
    /\ stack_last.op = "to_list" =>
          /\ stack_last.ret = Reverse(stack.items)
          /\ stack = stack_last.pre
    /\ stack_last.op = "modify" => stack = stack_last.pre

(***************************************************************************)
(* C39.  Constructing an EventsManager completes without raising and       *)
(* yields a usable manager whose event list holds only the events loaded   *)
(* at startup and whose undo and redo stacks are empty, so that the CLI    *)
(* can start.                                                              *)
(***************************************************************************)
C39_ManagerConstructed ==
    startup.phase \in {"manager", "failed"} =>
        /\ startup.raised = None
        /\ startup.phase = "manager"
        /\ \A i \in 1..Len(DLL_to_list(events_list)) :
              \E j \in 1..Len(startup.file) : DLL_to_list(events_list)[i] = startup.file[j]
        /\ Stack_is_empty(undo_stack) /\ Stack_is_empty(redo_stack)
====
